---- MODULE Spec2Model ----
(***************************************************************************)
(* Key / session lifecycle engine of key_api.                              *)
(*                                                                         *)
(* The store (three Prisma tables), the wall clock and the in-memory login *)
(* limiter are the state.  Every handler is split at its awaits: one       *)
(* action per store call, so that requests of different callers interleave *)
(* exactly where the event loop can interleave them.  Time is counted in   *)
(* milliseconds, as Date does.                                             *)
(***************************************************************************)
EXTENDS Integers, Sequences, FiniteSets, TLC

(* ------------------------------ bounds -------------------------------- *)
\* key ids handed out by generateKey in one run
MaxKeys == 2
\* cap on the validations counted in the table
MaxUsage == 2
\* the clock is followed through this many instants
MaxInstants == 4
\* session tokens handed out by generateSessionToken in one run
MaxTokens == 2
\* AdminUser rows inserted in one run
MaxAdmins == 2

(* ------------------------- program constants -------------------------- *)
MsPerMinute == 60000
MsPerHour == 3600000
\* AdminAuth: ADMIN_LOGIN_MAX_ATTEMPTS, ADMIN_LOGIN_WINDOW_MS and
\* ADMIN_SESSION_TTL_HOURS at their defaults
maxAttempts == 10
windowMs == 900000
sessionTtlMs == 86400000

(* ---------------------------- input sets ------------------------------ *)
Procs == {1, 2}                       \* concurrently served requests
SeqProc == 1                          \* the one caller of the sequential runs
Users == {"alice", "bob"}
HoursInputs == {1, 2}                 \* hours as left by validateCreateKey
KeyIds == 1..MaxKeys                  \* uuids, in order of generation
NullTime == -1                        \* a NULL timestamp column
NullId == 0                           \* a NULL reference column
\* The instants at which the clock is read: each whole hour and the
\* millisecond after it (0, 1, 1h, 1h + 1, 2h, ...).
ClockValues ==
  {((i - 1) \div 2) * MsPerHour + ((i - 1) % 2) : i \in 1..MaxInstants}

\* what the callers submit to /auth/login; "" is a missing field
RootUsername == "root"                \* process.env.ADMIN_USERNAME
RootPassword == "s3cret-pw"           \* process.env.ADMIN_PASSWORD
Passwords == {RootPassword, "wrong-pw", ""}
Tokens == 1..MaxTokens                \* session tokens, in order of generation
NoToken == 0                          \* no cookie and no x-admin-session header
\* The instants at which the clock is read where logins are followed: the
\* start, the end of the first limiter window and the millisecond after
\* it, then each whole session lifetime and the millisecond after it.
AuthClockValues ==
  {CASE i = 1 -> 0
     [] i = 2 -> windowMs
     [] i = 3 -> windowMs + 1
     [] OTHER -> ((i - 2) \div 2) * sessionTtlMs + ((i - 2) % 2) :
   i \in 1..MaxInstants}

VARIABLES
  adminUsers,           \* table AdminUser: a set of rows
  adminSessions,        \* table AdminSession: a set of rows
  loginAttempts,        \* AdminAuth.loginAttempts: ip -> {count, firstAt}
  defaultAdminEnsured,  \* AdminAuth.defaultAdminEnsured
  nextToken,            \* the next token generateSessionToken returns
  nextAdminId,          \* the next AdminUser id the store generates
  now,            \* the wall clock, ms
  accessKeys,     \* table AccessKey: a set of rows
  nextKeyId,      \* the next uuid generateKey returns
  pc,             \* pc[p]: where request p stands
  loc,            \* loc[p]: the locals of request p across its awaits
  res             \* the response sent by the last step (res.to: to whom)

keyVars == <<accessKeys, nextKeyId>>
authVars == <<adminUsers, adminSessions, loginAttempts, defaultAdminEnsured,
              nextToken, nextAdminId>>
vars == <<now, accessKeys, nextKeyId, pc, loc, res, adminUsers, adminSessions,
          loginAttempts, defaultAdminEnsured, nextToken, nextAdminId>>

(* ------------------------------ keyUtils ------------------------------ *)

\* mapAccessKeyRecord: the API view of a row; status is lower-cased.
LowerStatus(s) ==
  CASE s = "ACTIVE" -> "active"
    [] s = "EXPIRED" -> "expired"
    [] s = "REVOKED" -> "revoked"

mapAccessKeyRecord(record) ==
  [ key_id |-> record.key_id,
    user_id |-> record.user_id,
    status |-> LowerStatus(record.status),
    created_at |-> record.created_at,
    expires_at |-> record.expires_at,
    last_accessed |-> record.last_accessed,
    usage_count |-> record.usage_count,
    created_by |-> record.created_by ]

\* getExpirationDate(hours), read at clock t.
getExpirationDate(hours, t) == t + hours * MsPerHour

\* (variant: a key is still valid at the instant it expires)
isKeyValid_Inclusive(key, t) == key.status = "active" /\ key.expires_at >= t

\* isKeyValid(key), read at clock t: key is a mapped record.
isKeyValid(key, t) == key.status = "active" /\ key.expires_at > t

\* getRemainingTime(expiryDate), read at clock t.
\* getRemainingTime_TotalMinutes gives all of diff in minutes.
getRemainingTime_TotalMinutes(expiryDate, t) ==
  LET diff == expiryDate - t IN
  IF diff <= 0
    THEN [expired |-> TRUE, remaining |-> 0, hours |-> 0, minutes |-> 0]
    ELSE [expired |-> FALSE, remaining |-> diff,
          hours |-> diff \div MsPerHour,
          minutes |-> diff \div MsPerMinute]

getRemainingTime(expiryDate, t) ==
  LET diff == expiryDate - t IN
  IF diff <= 0
    THEN [expired |-> TRUE, remaining |-> 0, hours |-> 0, minutes |-> 0]
    ELSE [expired |-> FALSE, remaining |-> diff,
          hours |-> diff \div MsPerHour,
          minutes |-> (diff % MsPerHour) \div MsPerMinute]

(* ---------------------------- store queries --------------------------- *)

\* prisma.accessKey.findUnique({where: {keyId}}): the rows with that key_id
\* (none or one, key_id is unique).
findByKeyId(keyId) == {r \in accessKeys : r.key_id = keyId}

\* (variant: the userId filter is missing)
findFirstActive_AnyUser(userId, t) ==
  LET m == {r \in accessKeys : r.status = "ACTIVE" /\ r.expires_at > t}
  IN {r \in m : \A q \in m : q.created_at <= r.created_at}

\* prisma.accessKey.findFirst({where: {userId, status: ACTIVE,
\* expiresAt: {gt: now}}, orderBy: createdAt desc}): the candidates for the
\* first row, i.e. the matching rows of greatest created_at.
findFirstActive(userId, t) ==
  LET m == {r \in accessKeys : /\ r.user_id = userId
                               /\ r.status = "ACTIVE"
                               /\ r.expires_at > t}
  IN {r \in m : \A q \in m : q.created_at <= r.created_at}

\* (variant: the store is asked for the lower-case status of the API view)
getActiveKeyForUser_CaseMix(userId, t) ==
  {mapAccessKeyRecord(r) : r \in {q \in accessKeys :
                                    /\ q.user_id = userId
                                    /\ q.status = "active"
                                    /\ q.expires_at > t}}

\* (variant: every row of the user counts, expired or not)
getActiveKeyForUser_AnyRow(userId, t) ==
  {mapAccessKeyRecord(r) : r \in {q \in accessKeys : q.user_id = userId}}

\* getActiveKeyForUser(userId): the mapped rows it can return (empty: null).
getActiveKeyForUser(userId, t) ==
  {mapAccessKeyRecord(r) : r \in {q \in findFirstActive(userId, t) :
                                    isKeyValid(mapAccessKeyRecord(q), t)}}

\* The row createKey inserts.
newKeyRow(keyId, userId, expiresAt, t) ==
  [ key_id |-> keyId, user_id |-> userId, status |-> "ACTIVE",
    created_at |-> t, expires_at |-> expiresAt,
    last_accessed |-> NullTime, usage_count |-> 0, created_by |-> NullId ]

\* (variant: lastAccessed is written, the increment is forgotten)
usageUpdated_NoIncrement(row, accessedAt) ==
  [row EXCEPT !.last_accessed = accessedAt]

\* prisma.accessKey.update({data: {usageCount: {increment: 1}, lastAccessed}})
usageUpdated(row, accessedAt) ==
  [row EXCEPT !.usage_count = @ + 1, !.last_accessed = accessedAt]

\* (variant: the delete is keyed by the owner of the key)
keysWithout_ByOwner(keyId) ==
  {r \in accessKeys :
     \A d \in accessKeys : d.key_id = keyId => r.user_id # d.user_id}

\* prisma.accessKey.delete({where: {keyId}}): the table without that row.
keysWithout(keyId) == {r \in accessKeys : r.key_id # keyId}

(* ------------------------------ responses ----------------------------- *)
NoTime == [expired |-> FALSE, remaining |-> 0, hours |-> 0, minutes |-> 0]

NoResp ==
  [ to |-> 0, op |-> "none", code |-> 0, valid |-> FALSE, key_id |-> 0, user_id |-> "",
    status |-> "", expires_at |-> NullTime, usage_count |-> 0,
    last_accessed |-> NullTime, valid_for_hours |-> 0,
    time_remaining |-> NoTime, keys |-> <<>>,
    ip |-> "", username |-> "", password |-> "", token |-> NoToken,
    admin_id |-> NullId, message |-> "", 
    stats |-> [total_keys |-> 0, active_keys |-> 0, expired_keys |-> 0,
              recent_keys |-> 0] ]

NoLoc == [key_id |-> 0, user_id |-> "", hours |-> 0, expires_at |-> NullTime,
          at |-> NullTime, key |-> NoResp,
          ip |-> "", username |-> "", password |-> "", token |-> NoToken,
          admin_id |-> NullId, session_id |-> NullId, password_hash |-> <<>>,
          actor |-> NullId, data |-> <<>>]

Idle(p) == pc[p] = "idle"
AllIdle == \A p \in Procs : Idle(p)

Reply(p, r) == res' = [r EXCEPT !.to = p]
NoReply == res' = NoResp
Goto(p, label, locals) ==
  /\ pc' = [pc EXCEPT ![p] = label]
  /\ loc' = [loc EXCEPT ![p] = locals]
Done(p) == Goto(p, "idle", NoLoc)

RECURSIVE SumUsage(_)
SumUsage(rows) ==
  IF rows = {} THEN 0
  ELSE LET r == CHOOSE x \in rows : TRUE
       IN r.usage_count + SumUsage(rows \ {r})

\* the validations counted in the table, and those between their read and
\* their usage update
PendingUsage ==
  SumUsage(accessKeys)
    + Cardinality({q \in Procs : pc[q] \in {"validate_update", "bind_update"}})

(* ----------------------------- the clock ------------------------------ *)
\* The clock only moves forward.
KeyTick ==
  /\ \E t \in ClockValues : t > now /\ now' = t
  /\ NoReply
  /\ UNCHANGED <<accessKeys, nextKeyId, pc, loc>>
  /\ UNCHANGED authVars

(* ------------------------- KeyService.createKey ----------------------- *)
\* createKey up to its insert: getActiveKeyForUser, then either the 409
\* of the controller or generateKey / getExpirationDate.
CreateKeyCheck(p, userId, hours) ==
  /\ Idle(p)
  /\ LET existing == getActiveKeyForUser(userId, now) IN
     IF existing # {}
       THEN /\ \E e \in existing :
                 Reply(p, [NoResp EXCEPT !.op = "createKey", !.code = 409,
                             !.key_id = e.key_id, !.user_id = e.user_id,
                             !.expires_at = e.expires_at,
                             !.time_remaining =
                                getRemainingTime(e.expires_at, now)])
            /\ UNCHANGED <<pc, loc, nextKeyId>>
       ELSE /\ nextKeyId <= MaxKeys
            /\ Goto(p, "create_insert",
                    [NoLoc EXCEPT !.key_id = nextKeyId, !.user_id = userId,
                                  !.hours = hours,
                                  !.expires_at = getExpirationDate(hours, now)])
            /\ nextKeyId' = nextKeyId + 1
            /\ NoReply
  /\ UNCHANGED <<now, accessKeys>>
  /\ UNCHANGED authVars

\* prisma.accessKey.create and the 200 of the controller.
CreateKeyInsert(p) ==
  /\ pc[p] = "create_insert"
  /\ LET createdKey == newKeyRow(loc[p].key_id, loc[p].user_id,
                                 loc[p].expires_at, now) IN
       /\ accessKeys' = accessKeys \cup {createdKey}
       /\ Reply(p, [NoResp EXCEPT !.op = "createKey", !.code = 200,
                      !.key_id = createdKey.key_id,
                      !.user_id = createdKey.user_id,
                      !.expires_at = createdKey.expires_at,
                      !.valid_for_hours = loc[p].hours])
  /\ Done(p)
  /\ UNCHANGED <<now, nextKeyId>>
  /\ UNCHANGED authVars

(* ------------------------ KeyService.validateKey ---------------------- *)
\* (variant: a key found expired is marked EXPIRED in the table)
ValidateKeyRead_Marking(p, keyId) ==
  /\ Idle(p)
  /\ LET found == findByKeyId(keyId) IN
     IF found = {}
       THEN /\ Reply(p, [NoResp EXCEPT !.op = "validateKey", !.code = 404,
                           !.key_id = keyId])
            /\ UNCHANGED <<pc, loc, accessKeys>>
       ELSE LET row == CHOOSE r \in found : TRUE
                key == mapAccessKeyRecord(row)
                valid == isKeyValid(key, now)
                result == [NoResp EXCEPT !.op = "validateKey",
                             !.valid = valid, !.key_id = keyId,
                             !.user_id = key.user_id, !.status = key.status,
                             !.expires_at = key.expires_at,
                             !.time_remaining =
                                getRemainingTime(key.expires_at, now),
                             !.usage_count = key.usage_count,
                             !.code = IF valid THEN 200 ELSE 410]
            IN IF valid
                 THEN /\ PendingUsage < MaxUsage
                      /\ Goto(p, "validate_update",
                              [NoLoc EXCEPT !.key_id = keyId, !.at = now,
                                            !.key = result])
                      /\ NoReply
                      /\ UNCHANGED accessKeys
                 ELSE /\ Reply(p, result)
                      /\ accessKeys' = (accessKeys \ {row})
                                         \cup {[row EXCEPT !.status = "EXPIRED"]}
                      /\ UNCHANGED <<pc, loc>>
  /\ UNCHANGED <<now, nextKeyId>>
  /\ UNCHANGED authVars

\* validateKey up to its update: getKeyById, isKeyValid, getRemainingTime.
ValidateKeyRead(p, keyId) ==
  /\ Idle(p)
  /\ LET found == findByKeyId(keyId) IN
     IF found = {}
       THEN /\ Reply(p, [NoResp EXCEPT !.op = "validateKey", !.code = 404,
                           !.key_id = keyId])
            /\ UNCHANGED <<pc, loc>>
       ELSE LET key == mapAccessKeyRecord(CHOOSE r \in found : TRUE)
                valid == isKeyValid(key, now)
                timeInfo == getRemainingTime(key.expires_at, now)
                result == [NoResp EXCEPT !.op = "validateKey",
                             !.valid = valid, !.key_id = keyId,
                             !.user_id = key.user_id, !.status = key.status,
                             !.expires_at = key.expires_at,
                             !.time_remaining = timeInfo,
                             !.usage_count = key.usage_count,
                             !.code = IF valid THEN 200 ELSE 410]
            IN IF valid
                 THEN /\ PendingUsage < MaxUsage
                      /\ Goto(p, "validate_update",
                              [NoLoc EXCEPT !.key_id = keyId, !.at = now,
                                            !.key = result])
                      /\ NoReply
                 ELSE /\ Reply(p, result)
                      /\ UNCHANGED <<pc, loc>>
  /\ UNCHANGED <<now, accessKeys, nextKeyId>>
  /\ UNCHANGED authVars

\* prisma.accessKey.update of validateKey: the atomic increment; the row
\* may be gone by now (P2025), which validateKey rethrows and the
\* controller turns into handleDatabaseError's 500.
\* ValidateKeyUpdate_ReadModifyWrite writes back the count validateKey
\* read, plus one.
ValidateKeyUpdate_ReadModifyWrite(p) ==
  /\ pc[p] = "validate_update"
  /\ LET found == findByKeyId(loc[p].key_id) IN
     IF found = {}
       THEN /\ Reply(p, [NoResp EXCEPT !.op = "validateKey", !.code = 500,
                           !.key_id = loc[p].key_id])
            /\ UNCHANGED accessKeys
       ELSE LET row == CHOOSE r \in found : TRUE
                updated == [row EXCEPT
                              !.usage_count = loc[p].key.usage_count + 1,
                              !.last_accessed = loc[p].at]
            IN /\ accessKeys' = (accessKeys \ {row}) \cup {updated}
               /\ Reply(p, [loc[p].key EXCEPT
                              !.usage_count = updated.usage_count])
  /\ Done(p)
  /\ UNCHANGED <<now, nextKeyId>>
  /\ UNCHANGED authVars

\* ValidateKeyUpdate_StampAtWrite dates the access when the store applies
\* the update, not when the request built it.
ValidateKeyUpdate_StampAtWrite(p) ==
  /\ pc[p] = "validate_update"
  /\ LET found == findByKeyId(loc[p].key_id) IN
     IF found = {}
       THEN /\ Reply(p, [NoResp EXCEPT !.op = "validateKey", !.code = 500,
                           !.key_id = loc[p].key_id])
            /\ UNCHANGED accessKeys
       ELSE LET row == CHOOSE r \in found : TRUE
                updated == usageUpdated(row, now)
            IN /\ accessKeys' = (accessKeys \ {row}) \cup {updated}
               /\ Reply(p, [loc[p].key EXCEPT
                              !.usage_count = updated.usage_count])
  /\ Done(p)
  /\ UNCHANGED <<now, nextKeyId>>
  /\ UNCHANGED authVars

ValidateKeyUpdate(p) ==
  /\ pc[p] = "validate_update"
  /\ LET found == findByKeyId(loc[p].key_id) IN
     IF found = {}
       THEN /\ Reply(p, [NoResp EXCEPT !.op = "validateKey", !.code = 500,
                           !.key_id = loc[p].key_id])
            /\ UNCHANGED accessKeys
       ELSE LET row == CHOOSE r \in found : TRUE
                updated == usageUpdated(row, loc[p].at)
            IN /\ accessKeys' = (accessKeys \ {row}) \cup {updated}
               /\ Reply(p, [loc[p].key EXCEPT
                              !.usage_count = updated.usage_count])
  /\ Done(p)
  /\ UNCHANGED <<now, nextKeyId>>
  /\ UNCHANGED authVars

(* ------------------ KeyController.generateBindingScript --------------- *)
\* generateBindingScript up to its update: getKeyById and isKeyValid; the
\* script it sends carries msg and code.
BindRead(p, keyId) ==
  /\ Idle(p)
  /\ LET found == findByKeyId(keyId) IN
     IF found = {}
       THEN /\ Reply(p, [NoResp EXCEPT !.op = "bind", !.code = 404,
                           !.message = "Binding failed, key not found."])
            /\ UNCHANGED <<pc, loc>>
       ELSE LET key == mapAccessKeyRecord(CHOOSE r \in found : TRUE) IN
            IF isKeyValid(key, now)
              THEN /\ PendingUsage < MaxUsage
                   /\ Goto(p, "bind_update",
                           [NoLoc EXCEPT !.key_id = keyId, !.at = now])
                   /\ NoReply
              ELSE /\ Reply(p, [NoResp EXCEPT !.op = "bind", !.code = 410,
                                  !.message =
                                    "Binding failed, key has expired."])
                   /\ UNCHANGED <<pc, loc>>
  /\ UNCHANGED <<now, accessKeys, nextKeyId>>
  /\ UNCHANGED authVars

\* keyService.updateKeyUsage: the atomic increment; when the row is gone
\* (P2025) the error script is sent with 500.
BindUpdate(p) ==
  /\ pc[p] = "bind_update"
  /\ LET found == findByKeyId(loc[p].key_id) IN
     IF found = {}
       THEN /\ Reply(p, [NoResp EXCEPT !.op = "bind", !.code = 500,
                           !.message = "Error loading validation script"])
            /\ UNCHANGED accessKeys
       ELSE LET row == CHOOSE r \in found : TRUE
            IN /\ accessKeys' = (accessKeys \ {row})
                                  \cup {usageUpdated(row, loc[p].at)}
               /\ Reply(p, [NoResp EXCEPT !.op = "bind", !.code = 200,
                              !.message =
                                "Binding is ok, you can now use it normally."])
  /\ Done(p)
  /\ UNCHANGED <<now, nextKeyId>>
  /\ UNCHANGED authVars

(* ------------------------- KeyService.getKeyInfo ---------------------- *)
\* (variant: getKeyInfo counts as a use of the key)
GetKeyInfo_Counting(p, keyId) ==
  /\ Idle(p)
  /\ LET found == findByKeyId(keyId) IN
     IF found = {}
       THEN /\ Reply(p, [NoResp EXCEPT !.op = "getKeyInfo", !.code = 404,
                           !.key_id = keyId])
            /\ UNCHANGED accessKeys
       ELSE LET row == CHOOSE r \in found : TRUE
                key == mapAccessKeyRecord(row)
                valid == isKeyValid(key, now)
            IN /\ Reply(p, [NoResp EXCEPT !.op = "getKeyInfo",
                              !.code = IF valid THEN 200 ELSE 410,
                              !.valid = valid, !.key_id = keyId,
                              !.user_id = key.user_id, !.status = key.status,
                              !.expires_at = key.expires_at,
                              !.time_remaining =
                                 getRemainingTime(key.expires_at, now),
                              !.usage_count = key.usage_count,
                              !.last_accessed = key.last_accessed])
               /\ accessKeys' =
                    IF valid /\ row.usage_count < MaxUsage
                      THEN (accessKeys \ {row}) \cup {usageUpdated(row, now)}
                      ELSE accessKeys
  /\ UNCHANGED <<now, nextKeyId, pc, loc>>
  /\ UNCHANGED authVars

GetKeyInfo(p, keyId) ==
  /\ Idle(p)
  /\ LET found == findByKeyId(keyId) IN
     IF found = {}
       THEN Reply(p, [NoResp EXCEPT !.op = "getKeyInfo", !.code = 404,
                        !.key_id = keyId])
       ELSE LET key == mapAccessKeyRecord(CHOOSE r \in found : TRUE)
                valid == isKeyValid(key, now)
            IN Reply(p, [NoResp EXCEPT !.op = "getKeyInfo",
                           !.code = IF valid THEN 200 ELSE 410,
                           !.valid = valid, !.key_id = keyId,
                           !.user_id = key.user_id, !.status = key.status,
                           !.expires_at = key.expires_at,
                           !.time_remaining =
                              getRemainingTime(key.expires_at, now),
                           !.usage_count = key.usage_count,
                           !.last_accessed = key.last_accessed])
  /\ UNCHANGED <<now, accessKeys, nextKeyId, pc, loc>>
  /\ UNCHANGED authVars

(* ------------------------ KeyService.getUserKeys ---------------------- *)
\* findMany({where: {userId}, orderBy: {createdAt: 'desc'}}): the orders
\* the store may return the rows in (rows of equal created_at in any order).
findManyByUser(userId) ==
  LET rows == {r \in accessKeys : r.user_id = userId}
      n == Cardinality(rows)
  IN {s \in [1..n -> rows] :
        /\ \A r \in rows : \E i \in 1..n : s[i] = r
        /\ \A i, j \in 1..n : i < j => s[i].created_at >= s[j].created_at}

keySummary(record, t) ==
  LET mapped == mapAccessKeyRecord(record) IN
  [ key_id |-> mapped.key_id, user_id |-> mapped.user_id,
    valid |-> isKeyValid(mapped, t), status |-> mapped.status,
    created_at |-> mapped.created_at, expires_at |-> mapped.expires_at,
    time_remaining |-> getRemainingTime(mapped.expires_at, t),
    usage_count |-> mapped.usage_count,
    last_accessed |-> mapped.last_accessed ]

GetUserKeys(p, userId) ==
  /\ Idle(p)
  /\ \E records \in findManyByUser(userId) :
       Reply(p, [NoResp EXCEPT !.op = "getUserKeys", !.code = 200,
                   !.user_id = userId,
                   !.keys = [i \in DOMAIN records |->
                               keySummary(records[i], now)]])
  /\ UNCHANGED <<now, accessKeys, nextKeyId, pc, loc>>
  /\ UNCHANGED authVars

(* -------------------------- KeyService.deleteKey ---------------------- *)
\* prisma.accessKey.delete: P2025 when there is no such row.
DeleteKey(p, keyId) ==
  /\ Idle(p)
  /\ IF findByKeyId(keyId) = {}
       THEN /\ Reply(p, [NoResp EXCEPT !.op = "deleteKey", !.code = 404,
                           !.key_id = keyId])
            /\ UNCHANGED accessKeys
       ELSE /\ accessKeys' = keysWithout(keyId)
            /\ Reply(p, [NoResp EXCEPT !.op = "deleteKey", !.code = 200,
                           !.key_id = keyId])
  /\ UNCHANGED <<now, nextKeyId, pc, loc>>
  /\ UNCHANGED authVars

(* --------------------------- specifications --------------------------- *)
\* A legacy row the table may hold when the process starts: the schema's
\* status enum has values no handler writes.
SeedStores ==
  {{}} \cup
  {{[ key_id |-> 1, user_id |-> "alice", status |-> s, created_at |-> 0,
      expires_at |-> MsPerHour, last_accessed |-> NullTime,
      usage_count |-> 0, created_by |-> NullId ]} :
     s \in {"EXPIRED", "REVOKED"}}

Init ==
  /\ now = 0
  /\ accessKeys \in SeedStores
  /\ nextKeyId = Cardinality(accessKeys) + 1
  /\ pc = [p \in Procs |-> "idle"]
  /\ loc = [p \in Procs |-> NoLoc]
  /\ res = NoResp
  /\ adminUsers = {}
  /\ adminSessions = {}
  /\ loginAttempts = <<>>
  /\ defaultAdminEnsured = FALSE
  /\ nextToken = 1
  /\ nextAdminId = 1

\* Requests served one at a time: the next starts when the last has answered.
KeySeqNext ==
  \/ \E userId \in Users, hours \in HoursInputs :
       AllIdle /\ CreateKeyCheck(SeqProc, userId, hours)
  \/ CreateKeyInsert(SeqProc)
  \/ \E keyId \in KeyIds : AllIdle /\ GetKeyInfo(SeqProc, keyId)
  \/ \E userId \in Users : AllIdle /\ GetUserKeys(SeqProc, userId)
  \/ \E keyId \in KeyIds : AllIdle /\ DeleteKey(SeqProc, keyId)
  \/ KeyTick

Spec == Init /\ [][KeySeqNext]_vars

\* Requests served one at a time, keys being created and validated.
KeyUseNext ==
  \/ \E userId \in Users, hours \in HoursInputs :
       AllIdle /\ CreateKeyCheck(SeqProc, userId, hours)
  \/ CreateKeyInsert(SeqProc)
  \/ \E keyId \in KeyIds : AllIdle /\ ValidateKeyRead(SeqProc, keyId)
  \/ ValidateKeyUpdate(SeqProc)
  \/ KeyTick

UseSpec == Init /\ [][KeyUseNext]_vars

(* ------------------------ validation middleware ----------------------- *)
\* config.keys at its defaults
defaultHours == 24
maxHours == 168

\* Values of a JSON body: a field left out, a number, or a string given
\* character by character.
Undefined == [type |-> "undefined", n |-> 0, chars |-> <<>>]
Num(n) == [type |-> "number", n |-> n, chars |-> <<>>]
Str(chars) == [type |-> "string", n |-> 0, chars |-> chars]

\* The string of a sequence of characters.
RECURSIVE Text(_)
Text(chars) == IF chars = <<>> THEN "" ELSE Head(chars) \o Text(Tail(chars))

\* String.prototype.trim
RECURSIVE trimStart(_)
trimStart(chars) ==
  IF chars # <<>> /\ Head(chars) = " " THEN trimStart(Tail(chars)) ELSE chars
RECURSIVE trimEnd(_)
trimEnd(chars) ==
  IF chars # <<>> /\ chars[Len(chars)] = " "
    THEN trimEnd(SubSeq(chars, 1, Len(chars) - 1)) ELSE chars
trim(chars) == trimEnd(trimStart(chars))

\* keyUtils.sanitizeInput on the characters of a string.
Harmless(c) == c \notin {"<", ">", "\"", "'"}
sanitizeInput(chars) ==
  LET kept == trim(SelectSeq(chars, Harmless))
  IN SubSeq(kept, 1, IF Len(kept) < 255 THEN Len(kept) ELSE 255)

\* parseInt: the digits a string starts with, after blanks and a sign.
Digits == {"0", "1", "2", "3", "4", "5", "6", "7", "8", "9"}
RECURSIVE leadingDigits(_, _)
leadingDigits(chars, acc) ==
  LET c == Head(chars)
      digit ==
        CASE c = "0" -> 0 [] c = "1" -> 1 [] c = "2" -> 2 [] c = "3" -> 3
          [] c = "4" -> 4 [] c = "5" -> 5 [] c = "6" -> 6 [] c = "7" -> 7
          [] c = "8" -> 8 [] c = "9" -> 9
  IN IF chars # <<>> /\ c \in Digits
       THEN leadingDigits(Tail(chars), acc * 10 + digit)
       ELSE acc
parseInt(v) ==
  IF v.type = "number" THEN [nan |-> FALSE, n |-> v.n]
  ELSE IF v.type # "string" THEN [nan |-> TRUE, n |-> 0]
  ELSE LET c == trimStart(v.chars)
           negative == c # <<>> /\ Head(c) = "-"
           rest == IF c # <<>> /\ Head(c) \in {"-", "+"} THEN Tail(c) ELSE c
       IN IF rest = <<>> \/ Head(rest) \notin Digits
            THEN [nan |-> TRUE, n |-> 0]
            ELSE [nan |-> FALSE,
                  n |-> IF negative THEN 0 - leadingDigits(rest, 0)
                        ELSE leadingDigits(rest, 0)]

HoursMessage == "hours must be a positive number between 1 and 168"

\* (variant: hours above the maximum are brought down to it)
validateCreateKey_Clamping(body) ==
  LET hoursNum == parseInt(body.hours) IN
  IF body.user_id.type = "undefined" \/ body.user_id = Str(<<>>)
    THEN [code |-> 400, error |-> "user_id is required",
          user_id |-> "", hours |-> 0]
  ELSE IF body.user_id.type # "string" \/ Len(trim(body.user_id.chars)) = 0
    THEN [code |-> 400, error |-> "user_id must be a non-empty string",
          user_id |-> "", hours |-> 0]
  ELSE IF body.hours.type = "undefined"
    THEN [code |-> 0, error |-> "",
          user_id |-> Text(sanitizeInput(body.user_id.chars)),
          hours |-> defaultHours]
  ELSE IF hoursNum.nan \/ hoursNum.n <= 0
    THEN [code |-> 400, error |-> HoursMessage, user_id |-> "", hours |-> 0]
  ELSE [code |-> 0, error |-> "",
        user_id |-> Text(sanitizeInput(body.user_id.chars)),
        hours |-> IF hoursNum.n > maxHours THEN maxHours ELSE hoursNum.n]

\* validateCreateKey(req, res, next): code 400 and the error it answers
\* with, or code 0 and the user_id and hours it leaves in req.body.
validateCreateKey(body) ==
  LET hoursNum == parseInt(body.hours) IN
  IF body.user_id.type = "undefined" \/ body.user_id = Str(<<>>)
    THEN [code |-> 400, error |-> "user_id is required",
          user_id |-> "", hours |-> 0]
  ELSE IF body.user_id.type # "string" \/ Len(trim(body.user_id.chars)) = 0
    THEN [code |-> 400, error |-> "user_id must be a non-empty string",
          user_id |-> "", hours |-> 0]
  ELSE IF body.hours.type = "undefined"
    THEN [code |-> 0, error |-> "",
          user_id |-> Text(sanitizeInput(body.user_id.chars)),
          hours |-> defaultHours]
  ELSE IF hoursNum.nan \/ hoursNum.n <= 0 \/ hoursNum.n > maxHours
    THEN [code |-> 400, error |-> HoursMessage, user_id |-> "", hours |-> 0]
  ELSE [code |-> 0, error |-> "",
        user_id |-> Text(sanitizeInput(body.user_id.chars)),
        hours |-> hoursNum.n]

\* router.post('/create', validateCreateKey, keyController.createKey): the
\* middleware answers 400 or hands the request on to createKey.
PostCreate(p, body) ==
  LET v == validateCreateKey(body) IN
  IF v.code = 400
    THEN /\ Idle(p)
         /\ Reply(p, [NoResp EXCEPT !.op = "createKey", !.code = 400,
                        !.message = v.error])
         /\ UNCHANGED <<now, accessKeys, nextKeyId, pc, loc>>
         /\ UNCHANGED authVars
    ELSE CreateKeyCheck(p, v.user_id, v.hours)

\* The bodies posted to /create that are tried.
UserIdInputs ==
  {Undefined, Num(7), Str(<<>>), Str(<<" ">>), Str(<<"<", ">">>),
   Str(<<" ", "<", "a", "l", "i", "c", "e", ">">>)}
HoursRawInputs ==
  {Undefined, Num(0), Num(168), Num(169),
   Str(<<"2", "h">>), Str(<<"a", "b", "c">>), Str(<<"-", "1">>)}

\* Requests served one at a time, keys being created through the
\* validation middleware.
PostCreateNext ==
  \/ \E body \in [user_id : UserIdInputs, hours : HoursRawInputs] : AllIdle /\ PostCreate(SeqProc, body)
  \/ CreateKeyInsert(SeqProc)
  \/ KeyTick

PostCreateSpec == Init /\ [][PostCreateNext]_vars

(* --------------------------- key statistics --------------------------- *)
\* KeyService.getTotalKeysCount: prisma.accessKey.count().
getTotalKeysCount == Cardinality(accessKeys)

\* (variant: the expiry filter is missing)
getActiveKeysCount_StatusOnly(t) ==
  Cardinality({r \in accessKeys : r.status = "ACTIVE"})

\* KeyService.getActiveKeysCount, read at clock t.
getActiveKeysCount(t) ==
  Cardinality({r \in accessKeys : r.status = "ACTIVE" /\ r.expires_at > t})

\* KeyService.getExpiredKeysCount, read at clock t.
getExpiredKeysCount(t) ==
  Cardinality({r \in accessKeys : r.expires_at <= t \/ r.status = "EXPIRED"})

\* KeyService.getRecentKeys(hours), read at clock t.
getRecentKeys(hours, t) ==
  {mapAccessKeyRecord(r) :
     r \in {x \in accessKeys : x.created_at >= t - hours * MsPerHour}}

\* getAdminStats: the four queries are issued together, in one tick.
GetAdminStats(p) ==
  /\ Idle(p)
  /\ Reply(p, [NoResp EXCEPT
                 !.op = "getAdminStats", !.code = 200,
                 !.stats = [total_keys |-> getTotalKeysCount,
                            active_keys |-> getActiveKeysCount(now),
                            expired_keys |-> getExpiredKeysCount(now),
                            recent_keys |->
                              Cardinality(getRecentKeys(24, now))]])
  /\ UNCHANGED <<now, accessKeys, nextKeyId, pc, loc>>
  /\ UNCHANGED authVars

\* getAdminStats with other requests in flight: Promise.all issues the
\* four queries in one tick, each with the cutoff it read then (new Date()
\* is evaluated when the query is built); the store answers them one by
\* one, in any order.
GetAdminStatsIssue(p) ==
  /\ Idle(p)
  /\ Goto(p, "stats_queries", [NoLoc EXCEPT !.at = now])
  /\ NoReply
  /\ UNCHANGED <<now, accessKeys, nextKeyId>>
  /\ UNCHANGED authVars

\* The store answers one of the four queries; after the last of them the
\* reply is sent.
GetAdminStatsQuery(p, query) ==
  /\ pc[p] = "stats_queries"
  /\ query \notin DOMAIN loc[p].data
  /\ LET count ==
           CASE query = "total_keys" -> getTotalKeysCount
             [] query = "active_keys" -> getActiveKeysCount(loc[p].at)
             [] query = "expired_keys" -> getExpiredKeysCount(loc[p].at)
             [] query = "recent_keys" ->
                  Cardinality(getRecentKeys(24, loc[p].at))
         counts == (query :> count) @@ loc[p].data
     IN IF DOMAIN counts = {"total_keys", "active_keys", "expired_keys",
                            "recent_keys"}
          THEN /\ Reply(p, [NoResp EXCEPT
                              !.op = "getAdminStats", !.code = 200,
                              !.stats = [k \in DOMAIN counts |-> counts[k]]])
               /\ Done(p)
          ELSE /\ Goto(p, "stats_queries", [loc[p] EXCEPT !.data = counts])
               /\ NoReply
  /\ UNCHANGED <<now, accessKeys, nextKeyId>>
  /\ UNCHANGED authVars

\* The statistics are read while another request creates keys for alice
\* and deletes keys that exist, and the clock runs.
StatsConcNext ==
  \/ GetAdminStatsIssue(1)
  \/ \E query \in {"total_keys", "active_keys", "expired_keys",
                    "recent_keys"} : GetAdminStatsQuery(1, query)
  \/ CreateKeyCheck(2, "alice", 1)
  \/ CreateKeyInsert(2)
  \/ \E r \in accessKeys : DeleteKey(2, r.key_id)
  \/ KeyTick

StatsConcSpec == Init /\ [][StatsConcNext]_vars

\* Requests served one at a time, keys being created and deleted and the
\* statistics read.
KeyStatsNext ==
  \/ \E userId \in Users, hours \in HoursInputs :
       AllIdle /\ CreateKeyCheck(SeqProc, userId, hours)
  \/ CreateKeyInsert(SeqProc)
  \/ \E keyId \in KeyIds : AllIdle /\ DeleteKey(SeqProc, keyId)
  \/ AllIdle /\ GetAdminStats(SeqProc)
  \/ KeyTick

StatsSpec == Init /\ [][KeyStatsNext]_vars

\* Requests served one at a time over the life of alice's keys: issued for
\* one hour, used, read, left to expire or deleted, and issued again.
LifecycleNext ==
  \/ AllIdle /\ CreateKeyCheck(SeqProc, "alice", 1)
  \/ CreateKeyInsert(SeqProc)
  \/ \E keyId \in KeyIds : AllIdle /\ ValidateKeyRead(SeqProc, keyId)
  \/ ValidateKeyUpdate(SeqProc)
  \/ \E keyId \in KeyIds : AllIdle /\ BindRead(SeqProc, keyId)
  \/ BindUpdate(SeqProc)
  \/ \E keyId \in KeyIds : AllIdle /\ GetKeyInfo(SeqProc, keyId)
  \/ AllIdle /\ GetUserKeys(SeqProc, "alice")
  \/ \E keyId \in KeyIds : AllIdle /\ DeleteKey(SeqProc, keyId)
  \/ KeyTick

LifecycleSpec == Init /\ [][LifecycleNext]_vars

\* Validations served concurrently, of a key alice was issued at the
\* start of the run, valid for one hour.
ValidateInit ==
  /\ now = 0
  /\ accessKeys = {newKeyRow(1, "alice", getExpirationDate(1, 0), 0)}
  /\ nextKeyId = 2
  /\ pc = [p \in Procs |-> "idle"]
  /\ loc = [p \in Procs |-> NoLoc]
  /\ res = NoResp
  /\ adminUsers = {}
  /\ adminSessions = {}
  /\ loginAttempts = <<>>
  /\ defaultAdminEnsured = FALSE
  /\ nextToken = 1
  /\ nextAdminId = 1

ValidateConcNext ==
  \/ \E p \in Procs : ValidateKeyRead(p, 1)
  \/ \E p \in Procs : ValidateKeyUpdate(p)
  \/ \E p \in Procs : BindRead(p, 1)
  \/ \E p \in Procs : BindUpdate(p)
  \/ \E p \in Procs : DeleteKey(p, 1)
  \/ KeyTick

ValidateConcSpec == ValidateInit /\ [][ValidateConcNext]_vars

\* Requests served concurrently: their store calls interleave.
KeyConcNext ==
  \/ \E p \in Procs, userId \in Users, hours \in HoursInputs :
       CreateKeyCheck(p, userId, hours)
  \/ \E p \in Procs : CreateKeyInsert(p)
  \/ \E p \in Procs, keyId \in KeyIds : DeleteKey(p, keyId)
  \/ KeyTick

ConcSpec == Init /\ [][KeyConcNext]_vars

\* keyUtils.getRemainingTime called with an expiry date at the clock's
\* reading.
GetRemainingTime(p, expiryDate) ==
  /\ Idle(p)
  /\ Reply(p, [NoResp EXCEPT !.op = "getRemainingTime",
                             !.expires_at = expiryDate,
                             !.time_remaining =
                               getRemainingTime(expiryDate, now)])
  /\ UNCHANGED <<now, pc, loc>>
  /\ UNCHANGED keyVars
  /\ UNCHANGED authVars

\* The expiry dates tried lie whole hours, whole minutes, and a
\* millisecond or a minute less a millisecond more, after the start.
RemainingNext ==
  \/ \E h \in 0..2, m \in {0, 1, 59}, ms \in {0, 1, MsPerMinute - 1} :
       GetRemainingTime(SeqProc, h * MsPerHour + m * MsPerMinute + ms)
  \/ KeyTick

RemainingSpec == Init /\ [][RemainingNext]_vars

(* ====================== admin login and sessions ===================== *)

\* CITEXT column "username": compared without regard to case.
LowerName(u) ==
  CASE u = "ROOT" -> "root"
    [] u = "OPS" -> "ops"
    [] OTHER -> u

\* security.hashPassword / verifyPassword: a bcrypt digest, matched only by
\* the password it was made from.
hashPassword(password) == <<"bcrypt", password>>
verifyPassword(password, passwordHash) == passwordHash = <<"bcrypt", password>>

\* security.hashSessionToken: the sha256 digest of the token, written as
\* the token's negative: a value that is no token and that no two tokens
\* share.  hashSessionToken_Raw keeps the token as it is.
hashSessionToken_Raw(token) == token

hashSessionToken(token) == 0 - token

\* prisma.adminUser.findUnique({ where: { username } })
getAdminByUsername(username) ==
  {a \in adminUsers : LowerName(a.username) = LowerName(username)}

\* prisma.adminSession.findUnique({ where: { sessionTokenHash } })
findSessionByHash(hashedToken) ==
  {x \in adminSessions : x.token_hash = hashedToken}

\* requireAuth's test of the row it found; sessionStale_Strict is the same
\* test with a session still usable in its last millisecond.
sessionStale_Strict(session, t) ==
  session.revoked_at # NullTime \/ session.expires_at < t

sessionStale(session, t) ==
  session.revoked_at # NullTime \/ session.expires_at <= t

\* prisma.adminSession.delete({ where: { id } }); sessionsWithout_Revoked
\* marks the row revoked and keeps it.
sessionsWithout_Revoked(sessionId) ==
  {IF x.id = sessionId THEN [x EXCEPT !.revoked_at = now] ELSE x :
   x \in adminSessions}

sessionsWithout(sessionId) == {x \in adminSessions : x.id # sessionId}

\* AdminAuth.trackAttempt: the limiter's verdict and its map afterwards;
\* trackAttempt_Sliding restarts the window at every attempt.
trackAttempt_Sliding(attempts, ip, t) ==
  LET record == IF ip \in DOMAIN attempts THEN attempts[ip]
                ELSE [count |-> 0, firstAt |-> t]
  IN IF record.count >= maxAttempts /\ t - record.firstAt <= windowMs
       THEN [blocked |-> TRUE,
             attempts |-> (ip :> [record EXCEPT !.firstAt = t]) @@ attempts]
       ELSE [blocked |-> FALSE,
             attempts |-> (ip :> [count |-> IF t - record.firstAt > windowMs
                                             THEN 1 ELSE record.count + 1,
                                  firstAt |-> t]) @@ attempts]

\* trackAttempt_CountsBlocked counts the attempts it blocks as well.
trackAttempt_CountsBlocked(attempts, ip, t) ==
  LET stored == IF ip \in DOMAIN attempts THEN attempts[ip]
                ELSE [count |-> 0, firstAt |-> t]
      record == IF t - stored.firstAt > windowMs
                  THEN [count |-> 0, firstAt |-> t] ELSE stored
  IN [blocked |-> record.count >= maxAttempts,
      attempts |-> (ip :> [record EXCEPT !.count = @ + 1]) @@ attempts]

trackAttempt(attempts, ip, t) ==
  LET stored == IF ip \in DOMAIN attempts THEN attempts[ip]
                ELSE [count |-> 0, firstAt |-> t]
      record == IF t - stored.firstAt > windowMs
                  THEN [count |-> 0, firstAt |-> t] ELSE stored
  IN IF record.count >= maxAttempts
       THEN [blocked |-> TRUE, attempts |-> (ip :> record) @@ attempts]
       ELSE [blocked |-> FALSE,
             attempts |-> (ip :> [record EXCEPT !.count = @ + 1]) @@ attempts]

\* AdminAuth.resetAttempts deletes the address's record; resetAttempts_Forgive takes one attempt off the
\* record and drops it only when none is left.
resetAttempts_Forgive(attempts, ip) ==
  IF ip \in DOMAIN attempts /\ attempts[ip].count > 1
    THEN [attempts EXCEPT ![ip].count = @ - 1]
    ELSE [i \in DOMAIN attempts \ {ip} |-> attempts[i]]

resetAttempts(attempts, ip) ==
  [i \in DOMAIN attempts \ {ip} |-> attempts[i]]

LoginResp(p, code, message) ==
  [NoResp EXCEPT !.op = "login", !.code = code, !.message = message,
                 !.ip = loc[p].ip, !.username = loc[p].username,
                 !.password = loc[p].password]

\* The wall clock advances while logins and sessions are followed.
AuthTick ==
  /\ \E t \in AuthClockValues : t > now /\ now' = t
  /\ NoReply
  /\ UNCHANGED <<pc, loc>>
  /\ UNCHANGED keyVars
  /\ UNCHANGED authVars

\* POST /auth/login arrives: authenticate up to its first await,
\* AdminAuth.ensureDefaultAdmin's test of the flag.
LoginStart(p, ip, username, password) ==
  /\ Idle(p)
  /\ nextToken <= MaxTokens
  /\ Goto(p, IF defaultAdminEnsured THEN "login_track" ELSE "ensure_find",
          [NoLoc EXCEPT !.ip = ip, !.username = username,
                        !.password = password])
  /\ NoReply
  /\ UNCHANGED now
  /\ UNCHANGED keyVars
  /\ UNCHANGED authVars

\* adminService.ensureDefaultAdmin: the lookup of the configured root name.
EnsureFind(p) ==
  /\ pc[p] = "ensure_find"
  /\ IF getAdminByUsername(RootUsername) # {}
       THEN /\ defaultAdminEnsured' = TRUE
            /\ Goto(p, "login_track", loc[p])
       ELSE /\ Goto(p, "ensure_create", loc[p])
            /\ UNCHANGED defaultAdminEnsured
  /\ NoReply
  /\ UNCHANGED <<now, adminUsers, adminSessions, loginAttempts, nextToken, nextAdminId>>
  /\ UNCHANGED keyVars

\* adminService.ensureDefaultAdmin: the insert of the root account; a
\* refusal by the unique username index is caught and logged.
\* EnsureCreate_NoIndex is the insert into a table without that index.
EnsureCreate_NoIndex(p) ==
  /\ pc[p] = "ensure_create"
  /\ adminUsers' = adminUsers \cup
       {[id |-> nextAdminId, username |-> RootUsername,
         password_hash |-> hashPassword(RootPassword),
         status |-> "ACTIVE", is_permanent |-> TRUE,
         expires_at |-> NullTime, last_login_at |-> NullTime,
                   created_by |-> NullId]}
  /\ nextAdminId' = nextAdminId + 1
  /\ defaultAdminEnsured' = TRUE
  /\ Goto(p, "login_track", loc[p])
  /\ NoReply
  /\ UNCHANGED <<now, adminSessions, loginAttempts, nextToken>>
  /\ UNCHANGED keyVars

EnsureCreate(p) ==
  /\ pc[p] = "ensure_create"
  /\ adminUsers' =
       IF getAdminByUsername(RootUsername) # {} THEN adminUsers
       ELSE adminUsers \cup
            {[id |-> nextAdminId, username |-> RootUsername,
              password_hash |-> hashPassword(RootPassword),
              status |-> "ACTIVE", is_permanent |-> TRUE,
              expires_at |-> NullTime, last_login_at |-> NullTime,
                   created_by |-> NullId]}
  /\ nextAdminId' =
       IF getAdminByUsername(RootUsername) # {} THEN nextAdminId
       ELSE nextAdminId + 1
  /\ defaultAdminEnsured' = TRUE
  /\ Goto(p, "login_track", loc[p])
  /\ NoReply
  /\ UNCHANGED <<now, adminSessions, loginAttempts, nextToken>>
  /\ UNCHANGED keyVars

\* LoginTrack_FieldsFirst is the step with the two fields tested before the
\* limiter is consulted.
LoginTrack_FieldsFirst(p) ==
  /\ pc[p] = "login_track"
  /\ IF loc[p].username = "" \/ loc[p].password = ""
       THEN /\ Reply(p, LoginResp(p, 400,
                           "Username and password are required"))
            /\ Done(p)
            /\ UNCHANGED loginAttempts
       ELSE LET rate == trackAttempt(loginAttempts, loc[p].ip, now) IN
            /\ loginAttempts' = rate.attempts
            /\ IF rate.blocked
                 THEN /\ Reply(p, LoginResp(p, 429,
                                     "Too many attempts, try again later"))
                      /\ Done(p)
                 ELSE /\ Goto(p, "login_find", loc[p])
                      /\ NoReply
  /\ UNCHANGED <<now, adminUsers, adminSessions, defaultAdminEnsured,
                 nextToken, nextAdminId>>
  /\ UNCHANGED keyVars

\* authenticate after ensureDefaultAdmin: the limiter, then the test for
\* the two fields.
LoginTrack(p) ==
  /\ pc[p] = "login_track"
  /\ LET rate == trackAttempt(loginAttempts, loc[p].ip, now) IN
       /\ loginAttempts' = rate.attempts
       /\ IF rate.blocked
            THEN /\ Reply(p, LoginResp(p, 429,
                                "Too many attempts, try again later"))
                 /\ Done(p)
            ELSE IF loc[p].username = "" \/ loc[p].password = ""
            THEN /\ Reply(p, LoginResp(p, 400,
                                "Username and password are required"))
                 /\ Done(p)
            ELSE /\ Goto(p, "login_find", loc[p])
                 /\ NoReply
  /\ UNCHANGED <<now, adminUsers, adminSessions, defaultAdminEnsured,
                 nextToken, nextAdminId>>
  /\ UNCHANGED keyVars

\* LoginFind_Telling is the lookup that tells a disabled or expired account
\* from an unknown one in its answer.
LoginFind_Telling(p) ==
  /\ pc[p] = "login_find"
  /\ LET found == getAdminByUsername(loc[p].username) IN
       IF found = {}
         THEN /\ Reply(p, LoginResp(p, 401, "Invalid credentials"))
              /\ Done(p)
       ELSE IF \E admin \in found :
                 admin.expires_at # NullTime /\ admin.expires_at < now
         THEN /\ Reply(p, LoginResp(p, 401, "Admin account has expired"))
              /\ Done(p)
       ELSE IF \E admin \in found : admin.status # "ACTIVE"
         THEN /\ Reply(p, LoginResp(p, 401, "Admin account is disabled"))
              /\ Done(p)
       ELSE /\ Goto(p, "login_verify",
                    [loc[p] EXCEPT !.admin_id = (CHOOSE a \in found : TRUE).id,
                                   !.password_hash =
                                     (CHOOSE a \in found : TRUE).password_hash])
            /\ NoReply
  /\ UNCHANGED now
  /\ UNCHANGED keyVars
  /\ UNCHANGED authVars

\* adminService.validateCredentials: the account is read and its status
\* and expiry are tested.
LoginFind(p) ==
  /\ pc[p] = "login_find"
  /\ LET found == getAdminByUsername(loc[p].username) IN
       IF \/ found = {}
          \/ \E admin \in found :
               \/ admin.status # "ACTIVE"
               \/ admin.expires_at # NullTime /\ admin.expires_at < now
         THEN /\ Reply(p, LoginResp(p, 401, "Invalid credentials"))
              /\ Done(p)
         ELSE /\ Goto(p, "login_verify",
                      [loc[p] EXCEPT !.admin_id = (CHOOSE a \in found : TRUE).id,
                                     !.password_hash =
                                       (CHOOSE a \in found : TRUE).password_hash])
              /\ NoReply
  /\ UNCHANGED now
  /\ UNCHANGED keyVars
  /\ UNCHANGED authVars

\* LoginVerify_MasterPassword lets the configured password stand for the
\* password of any account.
LoginVerify_MasterPassword(p) ==
  /\ pc[p] = "login_verify"
  /\ IF /\ ~verifyPassword(loc[p].password, loc[p].password_hash)
        /\ loc[p].password # RootPassword
       THEN /\ Reply(p, LoginResp(p, 401, "Invalid credentials"))
            /\ Done(p)
            /\ UNCHANGED <<loginAttempts, nextToken>>
       ELSE /\ loginAttempts' = resetAttempts(loginAttempts, loc[p].ip)
            /\ nextToken' = nextToken + 1
            /\ Goto(p, "login_session",
                    [loc[p] EXCEPT !.token = nextToken,
                                   !.expires_at = now + sessionTtlMs,
                                   !.password_hash = <<>>])
            /\ NoReply
  /\ UNCHANGED <<now, adminUsers, adminSessions, defaultAdminEnsured,
                 nextAdminId>>
  /\ UNCHANGED keyVars

\* adminService.validateCredentials: the password is compared; on a match
\* authenticate clears the caller's attempts, draws the token and dates the
\* session.
LoginVerify(p) ==
  /\ pc[p] = "login_verify"
  /\ IF ~verifyPassword(loc[p].password, loc[p].password_hash)
       THEN /\ Reply(p, LoginResp(p, 401, "Invalid credentials"))
            /\ Done(p)
            /\ UNCHANGED <<loginAttempts, nextToken>>
       ELSE /\ loginAttempts' = resetAttempts(loginAttempts, loc[p].ip)
            /\ nextToken' = nextToken + 1
            /\ Goto(p, "login_session",
                    [loc[p] EXCEPT !.token = nextToken,
                                   !.expires_at = now + sessionTtlMs,
                                   !.password_hash = <<>>])
            /\ NoReply
  /\ UNCHANGED <<now, adminUsers, adminSessions, defaultAdminEnsured,
                 nextAdminId>>
  /\ UNCHANGED keyVars

\* LoginSession_NoForeignKey is the insert into a table whose
\* admin_user_id is not checked against AdminUser.
LoginSession_NoForeignKey(p) ==
  /\ pc[p] = "login_session"
  /\ adminSessions' = adminSessions \cup
       {[id |-> loc[p].token, admin_user_id |-> loc[p].admin_id,
         token_hash |-> hashSessionToken(loc[p].token),
         ip_address |-> loc[p].ip, created_at |-> now,
         last_seen_at |-> now, expires_at |-> loc[p].expires_at,
         revoked_at |-> NullTime]}
  /\ Goto(p, "login_record", [loc[p] EXCEPT !.session_id = loc[p].token])
  /\ NoReply
  /\ UNCHANGED <<now, adminUsers, loginAttempts, defaultAdminEnsured,
                 nextToken, nextAdminId>>
  /\ UNCHANGED keyVars

\* authenticate: prisma.adminSession.create; the insert is refused when the
\* account it refers to is gone.
LoginSession(p) ==
  /\ pc[p] = "login_session"
  /\ IF \E a \in adminUsers : a.id = loc[p].admin_id
       THEN /\ adminSessions' = adminSessions \cup
                 {[id |-> loc[p].token, admin_user_id |-> loc[p].admin_id,
                   token_hash |-> hashSessionToken(loc[p].token),
                   ip_address |-> loc[p].ip, created_at |-> now,
                   last_seen_at |-> now, expires_at |-> loc[p].expires_at,
                   revoked_at |-> NullTime]}
            /\ Goto(p, "login_record",
                    [loc[p] EXCEPT !.session_id = loc[p].token])
            /\ NoReply
       ELSE /\ Reply(p, LoginResp(p, 500, "Internal server error"))
            /\ Done(p)
            /\ UNCHANGED adminSessions
  /\ UNCHANGED <<now, adminUsers, loginAttempts, defaultAdminEnsured,
                 nextToken, nextAdminId>>
  /\ UNCHANGED keyVars

\* authenticate: adminService.recordLogin, then the reply with the raw
\* token.
LoginRecord(p) ==
  /\ pc[p] = "login_record"
  /\ IF \E a \in adminUsers : a.id = loc[p].admin_id
       THEN /\ adminUsers' =
                 {IF a.id = loc[p].admin_id
                    THEN [a EXCEPT !.last_login_at = now] ELSE a :
                  a \in adminUsers}
            /\ Reply(p, [LoginResp(p, 200, "Authentication successful")
                           EXCEPT !.token = loc[p].token,
                                  !.admin_id = loc[p].admin_id,
                                  !.expires_at = loc[p].expires_at])
       ELSE /\ Reply(p, LoginResp(p, 500, "Internal server error"))
            /\ UNCHANGED adminUsers
  /\ Done(p)
  /\ UNCHANGED <<now, adminSessions, loginAttempts, defaultAdminEnsured,
                 nextToken, nextAdminId>>
  /\ UNCHANGED keyVars

AuthResp(token, code, message) ==
  [NoResp EXCEPT !.op = "requireAuth", !.code = code, !.message = message,
                 !.token = token]

\* requireAuth up to the await after its lookup: the token is read, the
\* session is looked up by the token's digest and tested.
RequireAuthFind(p, sessionToken) ==
  /\ Idle(p)
  /\ IF sessionToken = NoToken
       THEN /\ Reply(p, AuthResp(sessionToken, 401, "Authentication required"))
            /\ Done(p)
       ELSE LET found == findSessionByHash(hashSessionToken(sessionToken)) IN
         IF found = {}
           THEN /\ Reply(p, AuthResp(sessionToken, 401,
                                     "Invalid or expired session"))
                /\ Done(p)
           ELSE LET session == CHOOSE x \in found : TRUE IN
             /\ Goto(p, IF sessionStale(session, now) THEN "auth_delete"
                        ELSE "auth_touch",
                     [NoLoc EXCEPT !.token = sessionToken,
                                   !.session_id = session.id,
                                   !.admin_id = session.admin_user_id])
             /\ NoReply
  /\ UNCHANGED now
  /\ UNCHANGED keyVars
  /\ UNCHANGED authVars

\* requireAuth: the stale session is deleted and the caller refused.
RequireAuthDelete(p) ==
  /\ pc[p] = "auth_delete"
  /\ adminSessions' = sessionsWithout(loc[p].session_id)
  /\ Reply(p, AuthResp(loc[p].token, 401, "Session expired"))
  /\ Done(p)
  /\ UNCHANGED <<now, adminUsers, loginAttempts, defaultAdminEnsured,
                 nextToken, nextAdminId>>
  /\ UNCHANGED keyVars

\* RequireAuthTouch_Sliding renews the session's lifetime at every use.
RequireAuthTouch_Sliding(p) ==
  /\ pc[p] = "auth_touch"
  /\ adminSessions' =
       {IF x.id = loc[p].session_id
          THEN [x EXCEPT !.last_seen_at = now,
                         !.expires_at = now + sessionTtlMs]
        ELSE x : x \in adminSessions}
  /\ Reply(p, [AuthResp(loc[p].token, 200, "")
                 EXCEPT !.admin_id = loc[p].admin_id])
  /\ Done(p)
  /\ UNCHANGED <<now, adminUsers, loginAttempts, defaultAdminEnsured,
                 nextToken, nextAdminId>>
  /\ UNCHANGED keyVars

\* requireAuth: last_seen_at is refreshed (a row gone by now is ignored)
\* and the request is let through as the session's admin.
RequireAuthTouch(p) ==
  /\ pc[p] = "auth_touch"
  /\ adminSessions' =
       {IF x.id = loc[p].session_id THEN [x EXCEPT !.last_seen_at = now]
        ELSE x : x \in adminSessions}
  /\ Reply(p, [AuthResp(loc[p].token, 200, "")
                 EXCEPT !.admin_id = loc[p].admin_id])
  /\ Done(p)
  /\ UNCHANGED <<now, adminUsers, loginAttempts, defaultAdminEnsured,
                 nextToken, nextAdminId>>
  /\ UNCHANGED keyVars

\* AdminAuth.logout deletes the sessions of the token's hash and reports
\* success in every case; Logout_Strict reports 404 when there was none.
Logout_Strict(p, sessionToken) ==
  /\ Idle(p)
  /\ adminSessions' =
       IF sessionToken = NoToken THEN adminSessions
       ELSE adminSessions \ findSessionByHash(hashSessionToken(sessionToken))
  /\ Reply(p, [NoResp EXCEPT !.op = "logout",
                             !.code = IF adminSessions' = adminSessions
                                        THEN 404 ELSE 200,
                             !.token = sessionToken,
                             !.message = "Logged out successfully"])
  /\ Done(p)
  /\ UNCHANGED <<now, adminUsers, loginAttempts, defaultAdminEnsured,
                 nextToken, nextAdminId>>
  /\ UNCHANGED keyVars

Logout(p, sessionToken) ==
  /\ Idle(p)
  /\ adminSessions' =
       IF sessionToken = NoToken THEN adminSessions
       ELSE adminSessions \ findSessionByHash(hashSessionToken(sessionToken))
  /\ Reply(p, [NoResp EXCEPT !.op = "logout", !.code = 200,
                             !.token = sessionToken,
                             !.message = "Logged out successfully"])
  /\ Done(p)
  /\ UNCHANGED <<now, adminUsers, loginAttempts, defaultAdminEnsured,
                 nextToken, nextAdminId>>
  /\ UNCHANGED keyVars

\* AdminAuth.clearAllSessions, the handler of DELETE /api/sessions: it runs
\* when requireAuth has just let the request of p through.
\* ClearAllSessions_Others spares the session the request came with.
ClearAllSessions_Others(p) ==
  /\ Idle(p)
  /\ res.op = "requireAuth" /\ res.code = 200 /\ res.to = p
  /\ adminSessions' = findSessionByHash(hashSessionToken(res.token))
  /\ Reply(p, [NoResp EXCEPT !.op = "clearAllSessions", !.code = 200,
                             !.token = res.token, !.admin_id = res.admin_id,
                             !.message = "Cleared sessions"])
  /\ Done(p)
  /\ UNCHANGED <<now, adminUsers, loginAttempts, defaultAdminEnsured,
                 nextToken, nextAdminId>>
  /\ UNCHANGED keyVars

ClearAllSessions(p) ==
  /\ Idle(p)
  /\ res.op = "requireAuth" /\ res.code = 200 /\ res.to = p
  /\ adminSessions' = {}
  /\ Reply(p, [NoResp EXCEPT !.op = "clearAllSessions", !.code = 200,
                             !.token = res.token, !.admin_id = res.admin_id,
                             !.message = "Cleared sessions"])
  /\ Done(p)
  /\ UNCHANGED <<now, adminUsers, loginAttempts, defaultAdminEnsured,
                 nextToken, nextAdminId>>
  /\ UNCHANGED keyVars

\* What the store may hold when the process starts: nothing, or the root
\* account of an earlier run with a session of its that was revoked (the
\* column exists; no handler writes it).
AuthSeedStores ==
  { [users |-> {}, sessions |-> {}, issued |-> 0],
    [users |-> {[id |-> 1, username |-> RootUsername,
                 password_hash |-> hashPassword(RootPassword),
                 status |-> "ACTIVE", is_permanent |-> TRUE,
                 expires_at |-> NullTime, last_login_at |-> 0,
                   created_by |-> NullId]},
     sessions |-> {[id |-> 1, admin_user_id |-> 1,
                    token_hash |-> hashSessionToken(1),
                    ip_address |-> "10.0.0.1", created_at |-> 0,
                    last_seen_at |-> 0, expires_at |-> sessionTtlMs,
                    revoked_at |-> 0]},
     issued |-> 1] }

AuthInit ==
  /\ now = 0
  /\ accessKeys = {}
  /\ nextKeyId = 1
  /\ pc = [p \in Procs |-> "idle"]
  /\ loc = [p \in Procs |-> NoLoc]
  /\ res = NoResp
  /\ \E seed \in AuthSeedStores :
       /\ adminUsers = seed.users
       /\ adminSessions = seed.sessions
       /\ nextToken = seed.issued + 1
       /\ nextAdminId = Cardinality(seed.users) + 1
  /\ loginAttempts = <<>>
  /\ defaultAdminEnsured = FALSE

\* One caller at a time at POST /auth/login: one address tries every
\* submission, the other logs in as root.
LoginSeqNext ==
  \/ AllIdle /\ \E username \in {RootUsername, "ROOT", "nobody"}, password \in Passwords :
                  LoginStart(SeqProc, "10.0.0.1", username, password)
  \/ AllIdle /\ LoginStart(SeqProc, "10.0.0.2", RootUsername, RootPassword)
  \/ EnsureFind(SeqProc)
  \/ EnsureCreate(SeqProc)
  \/ LoginTrack(SeqProc)
  \/ LoginFind(SeqProc)
  \/ LoginVerify(SeqProc)
  \/ LoginSession(SeqProc)
  \/ LoginRecord(SeqProc)
  \/ AuthTick

LoginSpec == AuthInit /\ [][LoginSeqNext]_vars

\* One admin client at a time, at one address: it logs in, presents
\* tokens to requireAuth, logs out.
SessionSeqNext ==
  \/ AllIdle /\ \E password \in Passwords :
                  LoginStart(SeqProc, "10.0.0.1", RootUsername, password)
  \/ EnsureFind(SeqProc)
  \/ EnsureCreate(SeqProc)
  \/ LoginTrack(SeqProc)
  \/ LoginFind(SeqProc)
  \/ LoginVerify(SeqProc)
  \/ LoginSession(SeqProc)
  \/ LoginRecord(SeqProc)
  \/ AllIdle /\ \E sessionToken \in Tokens \cup {NoToken} :
                  RequireAuthFind(SeqProc, sessionToken)
  \/ RequireAuthDelete(SeqProc)
  \/ RequireAuthTouch(SeqProc)
  \/ AllIdle /\ \E sessionToken \in Tokens \cup {NoToken} :
                  Logout(SeqProc, sessionToken)
  \/ AllIdle /\ ClearAllSessions(SeqProc)
  \/ AuthTick

SessionSpec == AuthInit /\ [][SessionSeqNext]_vars

\* The store rejects the write requireAuth awaits (the delete of a stale
\* session or the refresh of lastSeenAt): .catch(() => {}) drops the
\* rejection and requireAuth goes on as after a write that was made.
\* RequireAuthStoreFails_Surfaced hands the rejection to next(error).
RequireAuthStoreFails_Surfaced(p) ==
  /\ pc[p] \in {"auth_delete", "auth_touch"}
  /\ Reply(p, AuthResp(loc[p].token, 500, "Internal server error"))
  /\ Done(p)
  /\ UNCHANGED now
  /\ UNCHANGED keyVars
  /\ UNCHANGED authVars

RequireAuthStoreFails(p) ==
  /\ \/ /\ pc[p] = "auth_delete"
        /\ Reply(p, AuthResp(loc[p].token, 401, "Session expired"))
     \/ /\ pc[p] = "auth_touch"
        /\ Reply(p, [AuthResp(loc[p].token, 200, "")
                       EXCEPT !.admin_id = loc[p].admin_id])
  /\ Done(p)
  /\ UNCHANGED now
  /\ UNCHANGED keyVars
  /\ UNCHANGED authVars

\* The store rejects the write authenticate awaits (the insert of the
\* session, or recordLogin's update after the session was inserted): the
\* catch hands the error to next(error) and nothing is undone.
LoginStoreFails(p) ==
  /\ pc[p] \in {"login_session", "login_record"}
  /\ Reply(p, LoginResp(p, 500, "Internal server error"))
  /\ Done(p)
  /\ UNCHANGED now
  /\ UNCHANGED keyVars
  /\ UNCHANGED authVars

\* One admin client at a time logs in as root and presents tokens to
\* requireAuth, the store rejecting some of the writes.
FaultNext ==
  \/ AllIdle /\ LoginStart(SeqProc, "10.0.0.1", RootUsername, RootPassword)
  \/ EnsureFind(SeqProc)
  \/ EnsureCreate(SeqProc)
  \/ LoginTrack(SeqProc)
  \/ LoginFind(SeqProc)
  \/ LoginVerify(SeqProc)
  \/ LoginSession(SeqProc)
  \/ LoginRecord(SeqProc)
  \/ LoginStoreFails(SeqProc)
  \/ AllIdle /\ \E sessionToken \in Tokens :
                  RequireAuthFind(SeqProc, sessionToken)
  \/ RequireAuthDelete(SeqProc)
  \/ RequireAuthTouch(SeqProc)
  \/ RequireAuthStoreFails(SeqProc)
  \/ AuthTick

FaultSpec == AuthInit /\ [][FaultNext]_vars

\* Root's logins in flight at once, at the process's start and after.
BootNext ==
  \/ \E p \in Procs, username \in {RootUsername, "ROOT"} :
       LoginStart(p, "10.0.0.1", username, RootPassword)
  \/ \E p \in Procs : EnsureFind(p)
  \/ \E p \in Procs : EnsureCreate(p)
  \/ \E p \in Procs : LoginTrack(p)
  \/ \E p \in Procs : LoginFind(p)
  \/ \E p \in Procs : LoginVerify(p)
  \/ \E p \in Procs : LoginSession(p)
  \/ \E p \in Procs : LoginRecord(p)
  \/ AuthTick

BootSpec == AuthInit /\ [][BootNext]_vars

(* ========================= admin management ========================== *)

\* What the dashboard submits.  Names shorter than three characters and
\* passwords shorter than eight are the ones the controller turns down; ""
\* is a field left out.
ShortNames == {"", "ab"}
AdminPasswords == {"ops-pass-1", "short"}
ShortPasswords == {"", "short"}
AdminIds == 1..MaxAdmins
MalformedId == -1                     \* an :id that is no uuid

\* String(status).toUpperCase()
UpperStatus(status) ==
  CASE status = "disabled" -> "DISABLED"
    [] status = "active" -> "ACTIVE"
    [] OTHER -> status

\* adminService.getAdminById
getAdminById(id) == {a \in adminUsers : a.id = id}

\* The rows a write of username would collide with under the unique index
\* AdminUser_username_key.  usernameTaken_CaseSensitive is the index on a
\* TEXT column.
usernameTaken_CaseSensitive(username, exceptId) ==
  \E a \in adminUsers : a.id # exceptId /\ a.username = username

usernameTaken(username, exceptId) ==
  \E a \in adminUsers :
    a.id # exceptId /\ LowerName(a.username) = LowerName(username)

AdminResp(op, code, message) ==
  [NoResp EXCEPT !.op = op, !.code = code, !.message = message]

AdminRespOf(op, code, admin) ==
  [NoResp EXCEPT !.op = op, !.code = code, !.admin_id = admin.id,
                 !.username = admin.username, !.status = admin.status,
                 !.expires_at = admin.expires_at]

\* AdminController.createAdmin up to the await inside
\* adminService.createAdmin: the body is validated and the username looked
\* up.
CreateAdminCheck(p, actor, body) ==
  /\ Idle(p)
  /\ nextAdminId <= MaxAdmins
  /\ LET normalizedStatus == IF body.status = "" THEN "ACTIVE"
                             ELSE UpperStatus(body.status)
     IN
     IF body.username \in ShortNames
       THEN /\ Reply(p, AdminResp("createAdmin", 400,
                          "username must have at least 3 characters"))
            /\ Done(p)
     ELSE IF body.password \in ShortPasswords
       THEN /\ Reply(p, AdminResp("createAdmin", 400,
                          "password must have at least 8 characters"))
            /\ Done(p)
     ELSE IF normalizedStatus \notin {"ACTIVE", "DISABLED"}
       THEN /\ Reply(p, AdminResp("createAdmin", 400,
                          "status must be ACTIVE or DISABLED"))
            /\ Done(p)
     ELSE IF getAdminByUsername(body.username) # {}
       THEN /\ Reply(p, AdminResp("createAdmin", 409,
                          "Username already exists"))
            /\ Done(p)
     ELSE /\ Goto(p, "admin_insert",
                  [NoLoc EXCEPT !.actor = actor,
                                !.data = [body EXCEPT
                                            !.status = normalizedStatus]])
          /\ NoReply
  /\ UNCHANGED now
  /\ UNCHANGED keyVars
  /\ UNCHANGED authVars

\* adminService.createAdmin: prisma.adminUser.create; the unique index on
\* username refuses a second row of the name.
CreateAdminInsert(p) ==
  /\ pc[p] = "admin_insert"
  /\ IF usernameTaken(loc[p].data.username, NullId)
       THEN /\ Reply(p, AdminResp("createAdmin", 409,
                          "Username already exists"))
            /\ UNCHANGED <<adminUsers, nextAdminId>>
       ELSE LET newAdmin ==
                  [id |-> nextAdminId, username |-> loc[p].data.username,
                   password_hash |-> hashPassword(loc[p].data.password),
                   status |-> loc[p].data.status,
                   is_permanent |-> loc[p].data.is_permanent,
                   expires_at |-> loc[p].data.expires_at,
                   last_login_at |-> NullTime,
                   created_by |-> loc[p].actor]
            IN /\ adminUsers' = adminUsers \cup {newAdmin}
               /\ nextAdminId' = nextAdminId + 1
               /\ Reply(p, AdminRespOf("createAdmin", 201, newAdmin))
  /\ Done(p)
  /\ UNCHANGED <<now, adminSessions, loginAttempts, defaultAdminEnsured,
                 nextToken>>
  /\ UNCHANGED keyVars

\* The row after adminService.updateAdmin's write of the given fields.
applyUpdates(admin, updates) ==
  [admin EXCEPT
     !.username = IF "username" \in updates.fields THEN updates.username
                  ELSE @,
     !.password_hash = IF "password" \in updates.fields
                         THEN hashPassword(updates.password) ELSE @,
     !.status = IF "status" \in updates.fields THEN updates.status ELSE @,
     !.is_permanent = IF "is_permanent" \in updates.fields
                        THEN updates.is_permanent ELSE @,
     !.expires_at = IF "expires_at" \in updates.fields
                      THEN updates.expires_at ELSE @]

\* AdminController.updateAdmin's guard of a permanent target: the message
\* of the refusal, or "" when the update may go on.
\* permanentUpdateRefusal_StatusOnly guards the status alone.
permanentUpdateRefusal_StatusOnly(target, updates) ==
  IF ~target.is_permanent THEN ""
  ELSE IF "status" \in updates.fields /\ updates.status # "ACTIVE"
    THEN "Cannot change status of permanent admin"
  ELSE ""

permanentUpdateRefusal(target, updates) ==
  IF ~target.is_permanent THEN ""
  ELSE IF "status" \in updates.fields /\ updates.status # "ACTIVE"
    THEN "Cannot change status of permanent admin"
  ELSE IF "is_permanent" \in updates.fields /\ updates.is_permanent = FALSE
    THEN "Cannot unset permanent flag from permanent admin"
  ELSE ""

\* AdminController.updateAdmin up to the await after getAdminById: the id
\* and the body are validated, the target is read and guarded.
UpdateAdminCheck(p, actor, id, body) ==
  /\ Idle(p)
  /\ LET updates == [body EXCEPT !.status = UpperStatus(body.status)] IN
     IF id = MalformedId
       THEN /\ Reply(p, AdminResp("updateAdmin", 400, "Invalid admin id"))
            /\ Done(p)
     ELSE IF "username" \in body.fields /\ body.username \in ShortNames
       THEN /\ Reply(p, AdminResp("updateAdmin", 400,
                          "username must have at least 3 characters"))
            /\ Done(p)
     ELSE IF "password" \in body.fields /\ body.password \in ShortPasswords
       THEN /\ Reply(p, AdminResp("updateAdmin", 400,
                          "password must have at least 8 characters"))
            /\ Done(p)
     ELSE IF /\ "status" \in body.fields
             /\ updates.status \notin {"ACTIVE", "DISABLED"}
       THEN /\ Reply(p, AdminResp("updateAdmin", 400,
                          "status must be ACTIVE or DISABLED"))
            /\ Done(p)
     ELSE IF body.fields = {}
       THEN /\ Reply(p, AdminResp("updateAdmin", 400,
                          "No valid fields to update"))
            /\ Done(p)
     ELSE IF getAdminById(id) = {}
       THEN /\ Reply(p, AdminResp("updateAdmin", 404, "Admin not found"))
            /\ Done(p)
     ELSE LET target == CHOOSE a \in getAdminById(id) : TRUE
              refusal == permanentUpdateRefusal(target, updates)
          IN IF refusal # ""
               THEN /\ Reply(p, [AdminResp("updateAdmin", 400, refusal)
                                   EXCEPT !.admin_id = id])
                    /\ Done(p)
               ELSE /\ Goto(p, "admin_update",
                            [NoLoc EXCEPT !.admin_id = id, !.actor = actor,
                                          !.data = updates])
                    /\ NoReply
  /\ UNCHANGED now
  /\ UNCHANGED keyVars
  /\ UNCHANGED authVars

\* adminService.updateAdmin: prisma.adminUser.update.
UpdateAdminWrite(p) ==
  /\ pc[p] = "admin_update"
  /\ LET found == getAdminById(loc[p].admin_id) IN
     IF found = {}
       THEN /\ Reply(p, AdminResp("updateAdmin", 404, "Admin not found"))
            /\ UNCHANGED adminUsers
     ELSE IF /\ "username" \in loc[p].data.fields
             /\ usernameTaken(loc[p].data.username, loc[p].admin_id)
       THEN /\ Reply(p, AdminResp("updateAdmin", 409,
                          "Username already exists"))
            /\ UNCHANGED adminUsers
     ELSE LET admin == CHOOSE a \in found : TRUE
              updated == applyUpdates(admin, loc[p].data)
          IN /\ adminUsers' = (adminUsers \ {admin}) \cup {updated}
             /\ Reply(p, AdminRespOf("updateAdmin", 200, updated))
  /\ Done(p)
  /\ UNCHANGED <<now, adminSessions, loginAttempts, defaultAdminEnsured,
                 nextToken, nextAdminId>>
  /\ UNCHANGED keyVars

\* AdminController.deleteAdmin up to the await after getAdminById; actor is
\* the admin requireAuth attached to the request.
DeleteAdminCheck(p, actor, id, hardDelete) ==
  /\ Idle(p)
  /\ IF id = MalformedId
       THEN /\ Reply(p, AdminResp("deleteAdmin", 400, "Invalid admin id"))
            /\ Done(p)
     ELSE IF actor = id
       THEN /\ Reply(p, [AdminResp("deleteAdmin", 400,
                           "You cannot delete the active admin session")
                           EXCEPT !.admin_id = id])
            /\ Done(p)
     ELSE IF getAdminById(id) = {}
       THEN /\ Reply(p, AdminResp("deleteAdmin", 404, "Admin not found"))
            /\ Done(p)
     ELSE LET target == CHOOSE a \in getAdminById(id) : TRUE IN
          IF target.is_permanent /\ hardDelete
            THEN /\ Reply(p, [AdminResp("deleteAdmin", 400,
                                "Cannot hard delete a permanent admin")
                                EXCEPT !.admin_id = id])
                 /\ Done(p)
          ELSE IF hardDelete
            THEN /\ Goto(p, "admin_delete",
                         [NoLoc EXCEPT !.admin_id = id, !.actor = actor])
                 /\ NoReply
          ELSE IF target.is_permanent
            THEN /\ Reply(p, [AdminResp("deleteAdmin", 400,
                                "Cannot disable a permanent admin")
                                EXCEPT !.admin_id = id])
                 /\ Done(p)
          ELSE /\ Goto(p, "admin_disable",
                       [NoLoc EXCEPT !.admin_id = id, !.actor = actor])
               /\ NoReply
  /\ UNCHANGED now
  /\ UNCHANGED keyVars
  /\ UNCHANGED authVars

\* adminService.deleteAdmin: one transaction removes the admin's sessions,
\* clears created_by on the keys it created and deletes the row, and the
\* foreign key AdminUser_created_by_fkey (ON DELETE SET NULL) clears
\* created_by on the admins it created; when the row is gone nothing is
\* changed.
\* DeleteAdminHard_Cascade is the delete under foreign keys that cascade:
\* the keys and the admins the admin created go with it.
DeleteAdminHard_Cascade(p) ==
  /\ pc[p] = "admin_delete"
  /\ IF getAdminById(loc[p].admin_id) = {}
       THEN /\ Reply(p, AdminResp("deleteAdmin", 404, "Admin not found"))
            /\ UNCHANGED <<adminUsers, adminSessions, accessKeys>>
       ELSE /\ adminSessions' =
                 {x \in adminSessions : x.admin_user_id # loc[p].admin_id}
            /\ accessKeys' =
                 {r \in accessKeys : r.created_by # loc[p].admin_id}
            /\ adminUsers' =
                 {a \in adminUsers : /\ a.id # loc[p].admin_id
                                     /\ a.created_by # loc[p].admin_id}
            /\ Reply(p, [AdminResp("deleteAdmin", 200,
                           "Admin deleted permanently")
                           EXCEPT !.admin_id = loc[p].admin_id])
  /\ Done(p)
  /\ UNCHANGED <<now, nextKeyId, loginAttempts, defaultAdminEnsured,
                 nextToken, nextAdminId>>

DeleteAdminHard(p) ==
  /\ pc[p] = "admin_delete"
  /\ IF getAdminById(loc[p].admin_id) = {}
       THEN /\ Reply(p, AdminResp("deleteAdmin", 404, "Admin not found"))
            /\ UNCHANGED <<adminUsers, adminSessions, accessKeys>>
       ELSE /\ adminSessions' =
                 {x \in adminSessions : x.admin_user_id # loc[p].admin_id}
            /\ accessKeys' =
                 {IF r.created_by = loc[p].admin_id
                    THEN [r EXCEPT !.created_by = NullId] ELSE r :
                  r \in accessKeys}
            /\ adminUsers' =
                 {IF a.created_by = loc[p].admin_id
                    THEN [a EXCEPT !.created_by = NullId] ELSE a :
                  a \in adminUsers \ getAdminById(loc[p].admin_id)}
            /\ Reply(p, [AdminResp("deleteAdmin", 200,
                           "Admin deleted permanently")
                           EXCEPT !.admin_id = loc[p].admin_id])
  /\ Done(p)
  /\ UNCHANGED <<now, nextKeyId, loginAttempts, defaultAdminEnsured,
                 nextToken, nextAdminId>>

\* adminService.deleteAdmin when a login of the admin inserts its session
\* after the transaction's deleteMany and before its adminUser.delete: the
\* delete is refused by AdminSession_admin_user_id_fkey (ON DELETE
\* RESTRICT), the transaction is rolled back and the controller answers
\* 500; the login's session is in the store.
DeleteAdminHardAborted(p) ==
  /\ pc[p] = "admin_delete"
  /\ \E q \in Procs \ {p} :
       /\ pc[q] = "login_session"
       /\ loc[q].admin_id = loc[p].admin_id
       /\ getAdminById(loc[p].admin_id) # {}
       /\ adminSessions' = adminSessions \cup
            {[id |-> loc[q].token, admin_user_id |-> loc[q].admin_id,
              token_hash |-> hashSessionToken(loc[q].token),
              ip_address |-> loc[q].ip, created_at |-> now,
              last_seen_at |-> now, expires_at |-> loc[q].expires_at,
              revoked_at |-> NullTime]}
       /\ pc' = [pc EXCEPT ![p] = "idle", ![q] = "login_record"]
       /\ loc' = [loc EXCEPT ![p] = NoLoc,
                             ![q] = [loc[q] EXCEPT !.session_id = loc[q].token]]
  /\ Reply(p, [AdminResp("deleteAdmin", 500, "Unable to delete admin")
                 EXCEPT !.admin_id = loc[p].admin_id])
  /\ UNCHANGED <<now, adminUsers, loginAttempts, defaultAdminEnsured,
                 nextToken, nextAdminId>>
  /\ UNCHANGED keyVars

\* adminService.disableAdmin: the row's status is set to DISABLED.
DisableAdminWrite(p) ==
  /\ pc[p] = "admin_disable"
  /\ LET found == getAdminById(loc[p].admin_id) IN
     IF found = {}
       THEN /\ Reply(p, AdminResp("deleteAdmin", 404, "Admin not found"))
            /\ UNCHANGED adminUsers
       ELSE LET admin == CHOOSE a \in found : TRUE
                updated == [admin EXCEPT !.status = "DISABLED"]
            IN /\ adminUsers' = (adminUsers \ {admin}) \cup {updated}
               /\ Reply(p, AdminRespOf("deleteAdmin", 200, updated))
  /\ Done(p)
  /\ UNCHANGED <<now, adminSessions, loginAttempts, defaultAdminEnsured,
                 nextToken, nextAdminId>>
  /\ UNCHANGED keyVars

\* The bodies given to createAdmin that are tried: every sound one, and the
\* ones with a single unsound field.
CreateBodies ==
  {body \in [username : {"ops", "ROOT", "ab"}, password : AdminPasswords,
             status : {"", "ACTIVE", "disabled", "bogus"}, is_permanent : BOOLEAN,
             expires_at : {NullTime}] :
     Cardinality({f \in {"username", "password", "status"} :
                    \/ f = "username" /\ body.username \in ShortNames
                    \/ f = "password" /\ body.password \in ShortPasswords
                    \/ f = "status" /\ body.status = "bogus"}) <= 1}

\* The bodies given to updateAdmin that are tried: no field, one field,
\* or status together with is_permanent.  A field left out has the value
\* it is never read with.
UpdateBodies ==
  {body \in [fields : SUBSET {"username", "password", "status", "is_permanent",
                             "expires_at"},
             username : {"dev", "ROOT", "ab"},
             password : AdminPasswords,
             status : {"ACTIVE", "disabled", "bogus"},
             is_permanent : BOOLEAN, expires_at : {NullTime, windowMs}] :
     /\ \/ Cardinality(body.fields) <= 1
        \/ body.fields = {"status", "is_permanent"}
     /\ "username" \notin body.fields => body.username = "dev"
     /\ "password" \notin body.fields => body.password = "ops-pass-1"
     /\ "status" \notin body.fields => body.status = "ACTIVE"
     /\ "is_permanent" \notin body.fields => body.is_permanent = FALSE
     /\ "expires_at" \notin body.fields => body.expires_at = NullTime}

\* The admins requireAuth can attach to a request: the owners of sessions.
Actors == {x.admin_user_id : x \in adminSessions}

\* The dashboard is opened after root's first login: the root account is
\* provisioned and holds a session.
AdminInit ==
  /\ now = 0
  /\ accessKeys = {}
  /\ nextKeyId = 1
  /\ pc = [p \in Procs |-> "idle"]
  /\ loc = [p \in Procs |-> NoLoc]
  /\ res = NoResp
  /\ adminUsers = {[id |-> 1, username |-> RootUsername,
                    password_hash |-> hashPassword(RootPassword),
                    status |-> "ACTIVE", is_permanent |-> TRUE,
                    expires_at |-> NullTime, last_login_at |-> 0,
                   created_by |-> NullId]}
  /\ adminSessions = {[id |-> 1, admin_user_id |-> 1,
                       token_hash |-> hashSessionToken(1),
                       ip_address |-> "10.0.0.1", created_at |-> 0,
                       last_seen_at |-> 0, expires_at |-> sessionTtlMs,
                       revoked_at |-> NullTime]}
  /\ loginAttempts = <<>>
  /\ defaultAdminEnsured = TRUE
  /\ nextToken = 2
  /\ nextAdminId = 2

\* One authenticated admin at a time manages the admin accounts.
AdminSeqNext ==
  \/ AllIdle /\ \E actor \in Actors, body \in CreateBodies :
                  CreateAdminCheck(SeqProc, actor, body)
  \/ CreateAdminInsert(SeqProc)
  \/ AllIdle /\ \E actor \in Actors, id \in AdminIds \cup {MalformedId},
                   body \in UpdateBodies :
                  UpdateAdminCheck(SeqProc, actor, id, body)
  \/ UpdateAdminWrite(SeqProc)
  \/ AllIdle /\ \E actor \in Actors, id \in AdminIds \cup {MalformedId},
                   hardDelete \in BOOLEAN :
                  DeleteAdminCheck(SeqProc, actor, id, hardDelete)
  \/ DeleteAdminHard(SeqProc)
  \/ DisableAdminWrite(SeqProc)

AdminSpec == AdminInit /\ [][AdminSeqNext]_vars

\* Logins of one address in flight at once, root being provisioned: good
\* and bad passwords and a missing one.
LimiterConcNext ==
  \/ \E p \in Procs, password \in Passwords :
       LoginStart(p, "10.0.0.1", RootUsername, password)
  \/ \E p \in Procs : LoginTrack(p)
  \/ \E p \in Procs : LoginFind(p)
  \/ \E p \in Procs : LoginVerify(p)
  \/ \E p \in Procs : LoginSession(p)
  \/ \E p \in Procs : LoginRecord(p)
  \/ AuthTick

LimiterConcSpec == AdminInit /\ [][LimiterConcNext]_vars

\* Admins create and rename accounts at once; the names differ by case
\* only, or not at all, or are root's.
ConcNames == {"ops", "OPS", "ROOT"}

AdminConcNext ==
  \/ \E p \in Procs, actor \in Actors, username \in ConcNames :
       CreateAdminCheck(p, actor,
         [username |-> username, password |-> "ops-pass-1", status |-> "",
          is_permanent |-> FALSE, expires_at |-> NullTime])
  \/ \E p \in Procs : CreateAdminInsert(p)
  \/ \E p \in Procs, actor \in Actors, id \in AdminIds, username \in ConcNames :
       UpdateAdminCheck(p, actor, id,
         [fields |-> {"username"}, username |-> username,
          password |-> "ops-pass-1", status |-> "ACTIVE",
          is_permanent |-> FALSE, expires_at |-> NullTime])
  \/ \E p \in Procs : UpdateAdminWrite(p)

AdminConcSpec == AdminInit /\ [][AdminConcNext]_vars

\* The dashboard with three accounts: root, "ops" created by root, and
\* "dev" created by ops; root and ops are logged in, and each created one
\* access key (keyService.createKey with createdById).
ManageIds == {1, 2, 3}
ManageBodies ==
  {body \in [fields : {{"status"}, {"is_permanent"}}, username : {"dev"},
             password : {"ops-pass-1"}, status : {"ACTIVE", "disabled"},
             is_permanent : BOOLEAN, expires_at : {NullTime}] :
     /\ "status" \notin body.fields => body.status = "ACTIVE"
     /\ "is_permanent" \notin body.fields => body.is_permanent = FALSE}

ManageInit ==
  /\ now = 0
  /\ accessKeys =
       {[newKeyRow(1, "alice", MsPerHour, 0) EXCEPT !.created_by = 2],
        [newKeyRow(2, "bob", MsPerHour, 0) EXCEPT !.created_by = 1]}
  /\ nextKeyId = 3
  /\ pc = [p \in Procs |-> "idle"]
  /\ loc = [p \in Procs |-> NoLoc]
  /\ res = NoResp
  /\ adminUsers =
       {[id |-> 1, username |-> RootUsername,
         password_hash |-> hashPassword(RootPassword),
         status |-> "ACTIVE", is_permanent |-> TRUE,
         expires_at |-> NullTime, last_login_at |-> 0,
         created_by |-> NullId],
        [id |-> 2, username |-> "ops",
         password_hash |-> hashPassword("ops-pass-1"),
         status |-> "ACTIVE", is_permanent |-> FALSE,
         expires_at |-> NullTime, last_login_at |-> 0,
         created_by |-> 1],
        [id |-> 3, username |-> "dev",
         password_hash |-> hashPassword("ops-pass-1"),
         status |-> "ACTIVE", is_permanent |-> FALSE,
         expires_at |-> NullTime, last_login_at |-> NullTime,
         created_by |-> 2]}
  /\ adminSessions =
       {[id |-> t, admin_user_id |-> t, token_hash |-> hashSessionToken(t),
         ip_address |-> "10.0.0.1", created_at |-> 0, last_seen_at |-> 0,
         expires_at |-> sessionTtlMs, revoked_at |-> NullTime] :
        t \in {1, 2}}
  /\ loginAttempts = <<>>
  /\ defaultAdminEnsured = TRUE
  /\ nextToken = 3
  /\ nextAdminId = 4

\* One authenticated admin at a time updates, disables or deletes accounts.
ManageSeqNext ==
  \/ AllIdle /\ \E actor \in Actors, id \in ManageIds, body \in ManageBodies :
                  UpdateAdminCheck(SeqProc, actor, id, body)
  \/ UpdateAdminWrite(SeqProc)
  \/ AllIdle /\ \E actor \in Actors, id \in ManageIds, hardDelete \in BOOLEAN :
                  DeleteAdminCheck(SeqProc, actor, id, hardDelete)
  \/ DeleteAdminHard(SeqProc)
  \/ DisableAdminWrite(SeqProc)

ManageSpec == ManageInit /\ [][ManageSeqNext]_vars

\* Root creates the account "ops", then disables or deletes it while
\* "ops" logs in and tokens are presented to requireAuth, these in flight
\* at once; the clock moves between requests.
RevokeNext ==
  \/ AllIdle /\ CreateAdminCheck(SeqProc, 1,
                   [username |-> "ops", password |-> "ops-pass-1",
                    status |-> "", is_permanent |-> FALSE,
                    expires_at |-> NullTime])
  \/ CreateAdminInsert(SeqProc)
  \/ \E p \in Procs : LoginStart(p, "10.0.0.2", "ops", "ops-pass-1")
  \/ \E p \in Procs : LoginTrack(p)
  \/ \E p \in Procs : LoginFind(p)
  \/ \E p \in Procs : LoginVerify(p)
  \/ \E p \in Procs : LoginSession(p)
  \/ \E p \in Procs : LoginRecord(p)
  \/ \E p \in Procs, id \in AdminIds \ {1}, hardDelete \in BOOLEAN :
       DeleteAdminCheck(p, 1, id, hardDelete)
  \/ \E p \in Procs : DeleteAdminHard(p)
  \/ \E p \in Procs : DeleteAdminHardAborted(p)
  \/ \E p \in Procs : DisableAdminWrite(p)
  \/ \E p \in Procs, sessionToken \in Tokens \ {1} :
       RequireAuthFind(p, sessionToken)
  \/ \E p \in Procs : RequireAuthDelete(p)
  \/ \E p \in Procs : RequireAuthTouch(p)
  \/ AllIdle /\ AuthTick

RevokeSpec == AdminInit /\ [][RevokeNext]_vars

\* Root creates an account and removes it again; logins with the
\* account's name, root's name and an unknown name arrive from one address
\* while the clock runs.  The accounts created are enabled or disabled,
\* lasting or expiring at the end of the first window.
CredSeqNext ==
  \/ AllIdle /\ \E actor \in Actors,
                    body \in [username : {"ops"}, password : {"ops-pass-1"},
                              status : {"", "disabled"},
                              is_permanent : {FALSE},
                              expires_at : {NullTime, windowMs}] :
                  CreateAdminCheck(SeqProc, actor, body)
  \/ CreateAdminInsert(SeqProc)
  \/ AllIdle /\ \E actor \in Actors, id \in AdminIds :
                  DeleteAdminCheck(SeqProc, actor, id, FALSE)
  \/ DisableAdminWrite(SeqProc)
  \/ AllIdle /\ \E username \in {"ops", "nobody", RootUsername},
                   password \in {"ops-pass-1", "wrong-pw", RootPassword} :
                  LoginStart(SeqProc, "10.0.0.2", username, password)
  \/ LoginTrack(SeqProc)
  \/ LoginFind(SeqProc)
  \/ LoginVerify(SeqProc)
  \/ LoginSession(SeqProc)
  \/ LoginRecord(SeqProc)
  \/ AuthTick

CredSpec == AdminInit /\ [][CredSeqNext]_vars

(* ============================== properties ============================ *)
\* the rows of a user that are active in the business sense at clock t
ActiveRows(userId, t) ==
  {r \in accessKeys :
     r.user_id = userId /\ r.status = "ACTIVE" /\ r.expires_at > t}

\* C1: served one request at a time, every user has at most one row that
\* is ACTIVE and unexpired, whatever creates, expiries and deletes came
\* before.
C1_SingleActiveKey ==
  \A userId \in Users : Cardinality(ActiveRows(userId, now)) <= 1

\* C1 witness: a user got a second key after the first one expired.
C1_Witness ==
  \E userId \in Users :
    /\ Cardinality(ActiveRows(userId, now)) = 1
    /\ \E r \in accessKeys :
         r.user_id = userId /\ r.status = "ACTIVE" /\ r.expires_at <= now

\* C2: two creates for the same user never both succeed: no user has two
\* ACTIVE rows of which one was inserted before the other expired.
C2_ConcurrentCreatesNeverBothSucceed ==
  \A r1, r2 \in accessKeys :
    ( /\ r1.user_id = r2.user_id
      /\ r1.status = "ACTIVE" /\ r2.status = "ACTIVE"
      /\ r1.created_at <= r2.created_at
      /\ r2.created_at < r1.expires_at ) => r1 = r2

\* C3: validateKey answers 404 when there is no row; when there is one, it
\* takes the valid branch (200, valid) exactly when the row is ACTIVE with
\* expires_at > now, and otherwise answers 410 with valid = false; the
\* valid branch ends in the 200.
C3_ValidateOutcome ==
  [][ /\ \A keyId \in KeyIds :
           ValidateKeyRead(SeqProc, keyId) =>
             LET rows == {r \in accessKeys : r.key_id = keyId} IN
             IF rows = {}
               THEN res'.op = "validateKey" /\ res'.code = 404
               ELSE \A r \in rows :
                      IF r.status = "ACTIVE" /\ r.expires_at > now
                        THEN /\ pc'[SeqProc] = "validate_update"
                             /\ res' = NoResp
                        ELSE /\ res'.op = "validateKey"
                             /\ res'.code = 410 /\ res'.valid = FALSE
                             /\ pc'[SeqProc] = "idle"
      /\ pc[SeqProc] = "validate_update" /\ pc'[SeqProc] = "idle" =>
           res'.op = "validateKey" /\ res'.code = 200 /\ res'.valid = TRUE
      /\ res'.op = "validateKey" /\ res'.code = 200 =>
           pc[SeqProc] = "validate_update"
    ]_vars

\* C3 witness: an ACTIVE key validated at the very instant it expires.
C3_Witness ==
  /\ res.op = "validateKey" /\ res.code = 410 /\ res.valid = FALSE
  /\ res.status = "active" /\ res.expires_at = now

\* C4: a successful validation adds exactly one to the key's usage_count
\* and answers with the new count; no other step changes the usage_count
\* or last_accessed of a row; a 410 answers with the stored count.
C4_UsageAccounting ==
  [][ /\ \A r \in accessKeys : \A q \in accessKeys' :
           r.key_id = q.key_id =>
             IF res'.op = "validateKey" /\ res'.code = 200
                  /\ res'.key_id = r.key_id
               THEN /\ q.usage_count = r.usage_count + 1
                    /\ res'.usage_count = q.usage_count
               ELSE /\ q.usage_count = r.usage_count
                    /\ q.last_accessed = r.last_accessed
      /\ res'.op = "validateKey" /\ res'.code = 200 =>
           \E r \in accessKeys : r.key_id = res'.key_id
      /\ res'.op = "validateKey" /\ res'.code = 410 =>
           \E r \in accessKeys :
             r.key_id = res'.key_id /\ res'.usage_count = r.usage_count
    ]_vars

\* C4 witness: the second of two successful validations of one key.
C4_Witness ==
  /\ res.op = "validateKey" /\ res.code = 200 /\ res.usage_count = 2
  /\ \E r \in accessKeys : r.key_id = res.key_id /\ r.usage_count = 2

\* C5: createKey for a user without an active key goes on to insert one
\* ACTIVE row with usage_count 0 and answers 200 with valid_for_hours =
\* hours; for a user with an active key it answers 409 with that key's
\* key_id, user_id and expires_at and the table is unchanged.
C5_CreateOrConflict ==
  [][ /\ \A userId \in Users, hours \in HoursInputs :
           CreateKeyCheck(SeqProc, userId, hours) =>
             /\ accessKeys' = accessKeys
             /\ IF ActiveRows(userId, now) = {}
                  THEN /\ pc'[SeqProc] = "create_insert"
                       /\ loc'[SeqProc].user_id = userId
                       /\ loc'[SeqProc].hours = hours
                       /\ res' = NoResp
                  ELSE /\ pc'[SeqProc] = "idle"
                       /\ res'.op = "createKey" /\ res'.code = 409
                       /\ \E e \in ActiveRows(userId, now) :
                            /\ res'.key_id = e.key_id
                            /\ res'.user_id = e.user_id
                            /\ res'.expires_at = e.expires_at
      /\ pc[SeqProc] = "create_insert" /\ pc'[SeqProc] = "idle" =>
           \E row \in accessKeys' :
             /\ row \notin accessKeys
             /\ accessKeys' = accessKeys \cup {row}
             /\ row.user_id = loc[SeqProc].user_id
             /\ row.status = "ACTIVE" /\ row.usage_count = 0
             /\ res'.op = "createKey" /\ res'.code = 200
             /\ res'.key_id = row.key_id /\ res'.user_id = row.user_id
             /\ res'.valid_for_hours = loc[SeqProc].hours
    ]_vars

\* C5 witness: a create refused with 409 while the user's key is active.
C5_Witness ==
  /\ res.op = "createKey" /\ res.code = 409
  /\ \E r \in accessKeys :
       /\ r.key_id = res.key_id /\ r.user_id = res.user_id
       /\ r.status = "ACTIVE" /\ r.expires_at > now /\ r.usage_count = 0

\* C6: deleteKey of a stored key removes exactly that row and answers 200;
\* deleteKey of a key that is not stored answers 404 and changes nothing;
\* a key that was deleted does not come back.
C6_DeleteTwice ==
  [][ /\ \A keyId \in KeyIds :
           DeleteKey(SeqProc, keyId) =>
             LET rows == {r \in accessKeys : r.key_id = keyId} IN
             /\ res'.op = "deleteKey"
             /\ accessKeys' = accessKeys \ rows
             /\ res'.code = IF rows = {} THEN 404 ELSE 200
      /\ \A keyId \in KeyIds :
           ( /\ keyId < nextKeyId
             /\ \A r \in accessKeys : r.key_id # keyId
             /\ \A p \in Procs : loc[p].key_id # keyId )
           => \A r \in accessKeys' : r.key_id # keyId
    ]_vars

\* C6 witness: the 404 of a second delete, with another key still stored.
C6_Witness ==
  /\ res.op = "deleteKey" /\ res.code = 404 /\ res.key_id < nextKeyId
  /\ AllIdle
  /\ accessKeys # {}

\* C7: a getKeyInfo or getUserKeys step leaves the table AccessKey as it is.
C7_ReadsAreReadOnly ==
  [][ res'.op \in {"getKeyInfo", "getUserKeys"} => accessKeys' = accessKeys
    ]_vars

\* C7 witness: getKeyInfo of an ACTIVE key that has expired, answered 410
\* with the row still stored.
C7_Witness ==
  /\ res.op = "getKeyInfo" /\ res.code = 410 /\ res.status = "active"
  /\ \E r \in accessKeys : r.key_id = res.key_id /\ r.expires_at <= now

\* The session a token stands for is usable at t: a stored row carries the
\* token's hash, is not revoked, and expires after t.
UsableSession(token, t) ==
  /\ token # NoToken
  /\ \E x \in adminSessions :
       /\ x.token_hash = hashSessionToken(token)
       /\ x.revoked_at = NullTime
       /\ x.expires_at > t

\* C8: requireAuth lets a request through exactly when the store holds a
\* session whose token hash matches the presented token, whose revoked_at is
\* null and whose expires_at is later than the clock when it is tested; a missing
\* token, an unknown token, a revoked session and a session with
\* expires_at <= now are all answered 401.
C8_RequireAuthGrantsIff ==
  [][\A p \in Procs :
       /\ (/\ Idle(p)
           /\ \/ pc'[p] \in {"auth_delete", "auth_touch"}
              \/ res'.op = "requireAuth" /\ res'.to = p)
          => LET token == IF pc'[p] = "idle" THEN res'.token
                          ELSE loc'[p].token
             IN IF UsableSession(token, now)
                  THEN pc'[p] = "auth_touch"
                  ELSE \/ pc'[p] = "auth_delete"
                       \/ pc'[p] = "idle" /\ res'.code = 401
       /\ (pc[p] = "auth_touch" /\ pc'[p] = "idle")
          => /\ res'.op = "requireAuth" /\ res'.code = 200
             /\ res'.token = loc[p].token
             /\ res'.admin_id = loc[p].admin_id
       /\ (pc[p] = "auth_delete" /\ pc'[p] = "idle")
          => res'.op = "requireAuth" /\ res'.code = 401
       /\ (res'.op = "requireAuth" /\ res'.to = p /\ res'.code = 200)
          => pc[p] = "auth_touch"]_vars

C8_Witness ==
  \E p \in Procs :
    /\ pc[p] = "auth_delete"
    /\ \E x \in adminSessions :
         /\ x.id = loc[p].session_id
         /\ x.token_hash = hashSessionToken(loc[p].token)
         /\ x.revoked_at = NullTime
         /\ x.expires_at = now

\* C9: a requireAuth call that finds the presented token's session expired
\* answers 401 and deletes that session row, so that afterwards the store
\* holds no session for the token; no other session is touched.
C9_ExpiredSessionRemoved ==
  [][\A p \in Procs :
       /\ (/\ Idle(p)
           /\ \/ pc'[p] \in {"auth_delete", "auth_touch"}
              \/ res'.op = "requireAuth" /\ res'.to = p
           /\ LET token == IF pc'[p] = "idle" THEN res'.token
                           ELSE loc'[p].token
              IN \E x \in adminSessions :
                   /\ token # NoToken
                   /\ x.token_hash = hashSessionToken(token)
                   /\ x.expires_at <= now)
          => pc'[p] = "auth_delete"
       /\ (pc[p] = "auth_delete" /\ pc'[p] = "idle")
          => /\ res'.op = "requireAuth" /\ res'.code = 401
             /\ res'.token = loc[p].token
             /\ adminSessions' =
                  {x \in adminSessions :
                     x.token_hash # hashSessionToken(loc[p].token)}
             /\ \A x \in adminSessions' : x.id # loc[p].session_id]_vars

C9_Witness ==
  /\ res.op = "requireAuth"
  /\ res.code = 401
  /\ res.message = "Session expired"
  /\ res.token = MaxTokens
  /\ now >= sessionTtlMs
  /\ \A x \in adminSessions : x.token_hash # hashSessionToken(res.token)

\* C10: the limiter counts every attempt of an address from the start of
\* its window; once maxAttempts attempts are counted, the next attempt of
\* that address made no later than windowMs after the window started is
\* answered 429 whatever it submits, and failed attempts are never
\* forgotten inside the window.  An attempt made more than windowMs after
\* the window started is not limited, starts a new window, and a login
\* with the correct credentials that gets past the limiter succeeds.
C10_RateLimitWindow ==
  [][/\ loginAttempts' # loginAttempts
        => \E p \in Procs :
             \/ pc[p] = "login_track" /\ pc'[p] # "login_track"
             \/ pc[p] = "login_verify" /\ pc'[p] = "login_session"
     /\ \A p \in Procs :
       /\ (pc[p] = "login_track" /\ pc'[p] # "login_track")
          => LET ip == loc[p].ip
                 known == ip \in DOMAIN loginAttempts
             IN /\ (known /\ now - loginAttempts[ip].firstAt <= windowMs
                          /\ loginAttempts[ip].count >= maxAttempts)
                   => /\ res'.op = "login" /\ res'.code = 429
                      /\ pc'[p] = "idle"
                      /\ loginAttempts' = loginAttempts
                /\ (known /\ now - loginAttempts[ip].firstAt <= windowMs
                          /\ loginAttempts[ip].count < maxAttempts)
                   => /\ res'.code # 429
                      /\ loginAttempts'[ip] =
                           [count |-> loginAttempts[ip].count + 1,
                            firstAt |-> loginAttempts[ip].firstAt]
                /\ (~known \/ now - loginAttempts[ip].firstAt > windowMs)
                   => /\ res'.code # 429
                      /\ loginAttempts'[ip] = [count |-> 1, firstAt |-> now]
                /\ \A other \in DOMAIN loginAttempts \ {ip} :
                     /\ other \in DOMAIN loginAttempts'
                     /\ loginAttempts'[other] = loginAttempts[other]
       /\ (pc[p] = "login_verify" /\ pc'[p] = "login_session")
          => loginAttempts' = resetAttempts(loginAttempts, loc[p].ip)
       /\ (res'.op = "login" /\ res'.to = p /\ res'.code = 401)
          => loginAttempts' = loginAttempts
       /\ (/\ pc[p] \in {"login_find", "login_verify", "login_session",
                         "login_record"}
           /\ LowerName(loc[p].username) = LowerName(RootUsername)
           /\ loc[p].password = RootPassword)
          => \/ pc'[p] = pc[p]
             \/ pc[p] = "login_find" /\ pc'[p] = "login_verify"
             \/ pc[p] = "login_verify" /\ pc'[p] = "login_session"
             \/ pc[p] = "login_session" /\ pc'[p] = "login_record"
             \/ /\ pc[p] = "login_record" /\ pc'[p] = "idle"
                /\ res'.op = "login" /\ res'.code = 200
                /\ res'.token \in Tokens]_vars

C10_Witness ==
  /\ res.op = "login"
  /\ res.code = 429
  /\ LowerName(res.username) = LowerName(RootUsername)
  /\ res.password = RootPassword
  /\ res.ip \in DOMAIN loginAttempts
  /\ loginAttempts[res.ip].count = maxAttempts
  /\ now - loginAttempts[res.ip].firstAt = windowMs

\* The limiter holds ip back at t: its record has reached maxAttempts and
\* its window, begun at firstAt, is not over.
Limited(ip, t) ==
  /\ ip \in DOMAIN loginAttempts
  /\ loginAttempts[ip].count >= maxAttempts
  /\ t - loginAttempts[ip].firstAt <= windowMs

\* C11: a login attempt of an address whose count has reached maxAttempts
\* inside the current window is answered 429 by the limiter step itself,
\* before the fields are looked at and without any lookup, password
\* comparison or session, and the address's count and window start stay as
\* they were; any other attempt has its count raised by exactly one (from
\* zero when the record is new or its window is over) before it goes on,
\* and 429 is answered in no other case.
C11_LimiterBeforeEverything ==
  [][\A p \in Procs :
       /\ (pc[p] = "login_track" /\ pc'[p] # "login_track")
          => LET ip == loc[p].ip IN
             IF Limited(ip, now)
               THEN /\ pc'[p] = "idle"
                    /\ res'.op = "login" /\ res'.to = p /\ res'.code = 429
                    /\ loginAttempts'[ip].count = loginAttempts[ip].count
                    /\ loginAttempts'[ip].firstAt = loginAttempts[ip].firstAt
                    /\ adminSessions' = adminSessions
                    /\ adminUsers' = adminUsers
                    /\ nextToken' = nextToken
               ELSE /\ ip \in DOMAIN loginAttempts'
                    /\ loginAttempts'[ip].count =
                         1 + (IF /\ ip \in DOMAIN loginAttempts
                                 /\ now - loginAttempts[ip].firstAt <= windowMs
                                THEN loginAttempts[ip].count ELSE 0)
                    /\ \/ pc'[p] = "login_find"
                       \/ /\ pc'[p] = "idle"
                          /\ res'.op = "login" /\ res'.code = 400
                          /\ (loc[p].username = "" \/ loc[p].password = "")
       /\ (res'.op = "login" /\ res'.to = p /\ res'.code = 429)
          => pc[p] = "login_track" /\ Limited(loc[p].ip, now)]_vars

C11_Witness ==
  /\ res.op = "login"
  /\ res.code = 429
  /\ res.password = ""
  /\ Limited(res.ip, now)
  /\ loginAttempts[res.ip].count = maxAttempts

\* C12: when a login succeeds the address's attempt record is deleted, so
\* after the success the address has no record and the attempts it failed
\* earlier no longer count; a record grows by at most one per step and only
\* a record that has reached maxAttempts is answered 429, so the next
\* maxAttempts attempts of the address all get past the limiter.  Records
\* of other addresses are not touched by the success.
C12_SuccessClearsAttempts ==
  [][/\ \A p \in Procs :
          /\ (pc[p] = "login_verify" /\ pc'[p] = "login_session")
             => /\ loc[p].ip \notin DOMAIN loginAttempts'
                /\ \A other \in DOMAIN loginAttempts \ {loc[p].ip} :
                     /\ other \in DOMAIN loginAttempts'
                     /\ loginAttempts'[other] = loginAttempts[other]
          /\ (res'.op = "login" /\ res'.to = p /\ res'.code = 200)
             => res'.ip \notin DOMAIN loginAttempts'
          /\ (res'.op = "login" /\ res'.to = p /\ res'.code = 429)
             => /\ res'.ip \in DOMAIN loginAttempts
                /\ loginAttempts[res'.ip].count >= maxAttempts
     /\ \A ip \in DOMAIN loginAttempts' :
          loginAttempts'[ip].count <=
            1 + (IF ip \in DOMAIN loginAttempts THEN loginAttempts[ip].count
                 ELSE 0)]_vars

C12_Witness ==
  /\ res.op = "login"
  /\ res.code = 401
  /\ res.ip \in DOMAIN loginAttempts
  /\ loginAttempts[res.ip].count = maxAttempts
  /\ \E x \in adminSessions :
       /\ x.ip_address = res.ip
       /\ x.revoked_at = NullTime
       /\ x.created_at = loginAttempts[res.ip].firstAt

\* validateCredentials accepts the pair at t: an account of that name is
\* ACTIVE, not past its expires_at, and the password matches its hash.
CredentialsAccepted(username, password, t) ==
  \E a \in getAdminByUsername(username) :
    /\ a.status = "ACTIVE"
    /\ a.expires_at = NullTime \/ a.expires_at >= t
    /\ verifyPassword(password, a.password_hash)

C14_LoginCreatesSession ==
  [][/\ \A p \in Procs :
          /\ (pc[p] = "login_verify" /\ pc'[p] = "login_session")
             => /\ loc'[p].expires_at = now + sessionTtlMs
                /\ loc'[p].token \in Tokens
                /\ \A x \in adminSessions :
                     x.token_hash # hashSessionToken(loc'[p].token)
          /\ (pc[p] = "login_session" /\ pc'[p] = "login_record")
             => \E x \in adminSessions' :
                  /\ adminSessions' = adminSessions \cup {x}
                  /\ x \notin adminSessions
                  /\ x.admin_user_id = loc[p].admin_id
                  /\ x.expires_at = loc[p].expires_at
                  /\ x.token_hash = hashSessionToken(loc[p].token)
                  /\ x.token_hash # loc[p].token
                  /\ x.revoked_at = NullTime
          /\ (pc[p] = "login_record" /\ pc'[p] = "idle")
             => /\ res'.op = "login" /\ res'.code = 200
                /\ res'.token = loc[p].token
                /\ res'.admin_id = loc[p].admin_id
                /\ \E a \in adminUsers' :
                     a.id = loc[p].admin_id /\ a.last_login_at = now
                /\ \E x \in adminSessions' :
                     /\ x.token_hash = hashSessionToken(res'.token)
                     /\ x.admin_user_id = res'.admin_id
                /\ adminSessions' = adminSessions
          /\ (/\ res'.op = "requireAuth" /\ res'.to = p /\ res'.code = 200)
             => \E x \in adminSessions :
                  /\ x.token_hash = hashSessionToken(res'.token)
                  /\ x.admin_user_id = res'.admin_id
          /\ (/\ Idle(p) /\ pc'[p] = "idle"
              /\ res'.op = "requireAuth" /\ res'.to = p
              /\ res'.message = "Invalid or expired session")
             => \A x \in adminSessions :
                  x.token_hash # hashSessionToken(res'.token)
     /\ \A x \in adminSessions :
          \/ \E y \in adminSessions' :
               /\ y.id = x.id
               /\ y.admin_user_id = x.admin_user_id
               /\ y.token_hash = x.token_hash
               /\ y.expires_at = x.expires_at
               /\ y.revoked_at = x.revoked_at
          \/ \E p \in Procs :
               \/ /\ pc[p] = "auth_delete" /\ loc[p].session_id = x.id
                  /\ (x.revoked_at # NullTime \/ x.expires_at <= now)
               \/ /\ res'.op = "logout" /\ res'.to = p
                  /\ x.token_hash = hashSessionToken(res'.token)
               \/ res'.op = "clearAllSessions" /\ res'.to = p]_vars

C14_Witness ==
  /\ res.op = "requireAuth"
  /\ res.code = 200
  /\ now > 0
  /\ \E x \in adminSessions :
       /\ x.token_hash = hashSessionToken(res.token)
       /\ x.admin_user_id = res.admin_id
       /\ x.expires_at = x.created_at + sessionTtlMs
       /\ x.last_seen_at = now
       /\ x.created_at < now
       /\ \E a \in adminUsers :
            a.id = x.admin_user_id /\ a.last_login_at = x.created_at

\* C15: logout answers success whether or not the token has a session (and
\* so also when it is repeated); it removes exactly the sessions carrying
\* the token's hash and leaves every other session as it was; once it has
\* answered, the store holds no session for the token, and requireAuth with
\* a token that has no session answers 401.
C15_LogoutIdempotent ==
  [][\A p \in Procs :
       /\ (res'.op = "logout" /\ res'.to = p)
          => /\ res'.code = 200
             /\ pc'[p] = "idle"
             /\ adminSessions' =
                  {x \in adminSessions :
                     \/ res'.token = NoToken
                     \/ x.token_hash # hashSessionToken(res'.token)}
             /\ \A x \in adminSessions' :
                  x.token_hash # hashSessionToken(res'.token)
       /\ (/\ Idle(p)
           /\ \/ pc'[p] \in {"auth_delete", "auth_touch"}
              \/ res'.op = "requireAuth" /\ res'.to = p
           /\ LET token == IF pc'[p] = "idle" THEN res'.token
                           ELSE loc'[p].token
              IN \A x \in adminSessions :
                   x.token_hash # hashSessionToken(token))
          => /\ pc'[p] = "idle"
             /\ res'.op = "requireAuth" /\ res'.code = 401
             /\ adminSessions' = adminSessions]_vars

C15_Witness ==
  /\ res.op = "logout"
  /\ res.code = 200
  /\ res.token \in Tokens
  /\ res.token < nextToken
  /\ \A x \in adminSessions : x.token_hash # hashSessionToken(res.token)
  /\ \E x \in adminSessions : x.revoked_at = NullTime /\ x.expires_at > now

\* C16: clearAllSessions, reached with a token requireAuth has just
\* accepted, leaves the AdminSession table empty, the caller's own session
\* gone with the rest; and with the table empty requireAuth refuses every
\* token.
C16_ClearAllSessions ==
  [][\A p \in Procs :
       /\ (res'.op = "clearAllSessions" /\ res'.to = p)
          => /\ res'.code = 200
             /\ \E x \in adminSessions :
                  x.token_hash = hashSessionToken(res'.token)
             /\ adminSessions' = {}
             /\ \A token \in Tokens :
                  \A x \in adminSessions' :
                    x.token_hash # hashSessionToken(token)
       /\ (/\ Idle(p)
           /\ adminSessions = {}
           /\ \/ pc'[p] \in {"auth_delete", "auth_touch"}
              \/ res'.op = "requireAuth" /\ res'.to = p)
          => /\ pc'[p] = "idle"
             /\ res'.code = 401]_vars

C16_Witness ==
  /\ res.op = "clearAllSessions"
  /\ res.code = 200
  /\ res.token \in Tokens
  /\ nextToken > MaxTokens
  /\ adminSessions = {}

\* The AdminUser rows carrying the configured root name.
RootRows == getAdminByUsername(RootUsername)

\* C17: with the root credentials configured, the step that finds no
\* AdminUser of the root name inserts one with is_permanent = TRUE and
\* status ACTIVE; the store never holds two rows of that name, whether the
\* logins come one after another or their first requests overlap; and a
\* login with the root credentials is answered 200.
C17_RootProvisionedOnce ==
  [][/\ Cardinality(RootRows') <= 1
     /\ \A p \in Procs :
          /\ (pc[p] = "ensure_create" /\ pc'[p] # "ensure_create")
             => /\ \E a \in RootRows' :
                     a.is_permanent /\ a.status = "ACTIVE"
                /\ RootRows # {} => adminUsers' = adminUsers
                /\ defaultAdminEnsured'
          /\ (pc[p] = "ensure_find" /\ pc'[p] = "ensure_create")
             => RootRows = {}
          /\ (/\ res'.op = "login" /\ res'.to = p
              /\ LowerName(res'.username) = LowerName(RootUsername)
              /\ res'.password = RootPassword)
             => res'.code = 200 /\ res'.admin_id \in {a.id : a \in RootRows'}]_vars

C17_Witness ==
  /\ \E p \in Procs : pc[p] = "ensure_create"
  /\ \E a \in RootRows : a.is_permanent /\ a.last_login_at = NullTime
  /\ Cardinality(adminUsers) = 1

\* C18: the provisioning step, the lookup of the root AdminUser and its
\* insert, is executed at most once in the life of the process: a request
\* performs the lookup only while the flag is unset and no other request is
\* inside the step.
C18_ProvisioningRunsOnce ==
  [][\A p \in Procs :
       (pc[p] = "ensure_find" /\ pc'[p] # "ensure_find")
       => /\ ~defaultAdminEnsured
          /\ \A q \in Procs \ {p} :
               pc[q] \notin {"ensure_find", "ensure_create"}]_vars

\* The ids of the permanent admins.
PermanentIds == {a.id : a \in {u \in adminUsers : u.is_permanent}}

\* The bodies given to updateAdmin, among those tried, that demote: they
\* ask for status DISABLED or for is_permanent = FALSE.
DemotingBodies ==
  {body \in [fields : {{"status"}, {"is_permanent"}, {"status", "is_permanent"}},
             username : {"dev"}, password : {"ops-pass-1"},
             status : {"ACTIVE", "disabled"}, is_permanent : BOOLEAN,
             expires_at : {NullTime}] :
     /\ body \in UpdateBodies
     /\ \/ "status" \in body.fields /\ UpperStatus(body.status) = "DISABLED"
        \/ "is_permanent" \in body.fields /\ body.is_permanent = FALSE}

\* C19: a request to soft-disable or hard-delete a permanent admin, or to
\* update its status to DISABLED or its is_permanent to FALSE, is answered
\* 400 at once, with no write left to do, and the AdminUser rows and the
\* AdminSession rows are what they were.
C19_PermanentAdminGuard ==
  [][\/ pc[SeqProc] # "idle"
     \/ /\ \/ /\ res'.op = "deleteAdmin" /\ res'.code = 400
              /\ pc'[SeqProc] = "idle"
              /\ adminUsers' = adminUsers /\ adminSessions' = adminSessions
           \/ \A id \in PermanentIds, actor \in Actors, hardDelete \in BOOLEAN :
                ~DeleteAdminCheck(SeqProc, actor, id, hardDelete)
        /\ \/ /\ res'.op = "updateAdmin" /\ res'.code = 400
              /\ pc'[SeqProc] = "idle"
              /\ adminUsers' = adminUsers /\ adminSessions' = adminSessions
           \/ \A id \in PermanentIds, actor \in Actors :
                \A body \in DemotingBodies :
                  ~UpdateAdminCheck(SeqProc, actor, id, body)]_vars

C19_Witness ==
  /\ res.op = "updateAdmin" /\ res.code = 400
  /\ res.message = "Cannot unset permanent flag from permanent admin"
  /\ res.admin_id \in PermanentIds
  /\ \E x \in adminSessions : x.admin_user_id = res.admin_id
  /\ AllIdle

\* C20: every permanent AdminUser has status ACTIVE, and an AdminUser that
\* is permanent is still there and still permanent after every step of
\* admin create, update, disable and delete.
C20_PermanentStaysActive ==
  [][/\ \A a \in adminUsers' : a.is_permanent => a.status = "ACTIVE"
     /\ \A id \in PermanentIds :
          \E b \in adminUsers' : b.id = id /\ b.is_permanent]_vars

\* C21: a request of an authenticated admin never deletes or disables the
\* caller's own account: after every write made for a request, the caller,
\* if it was ACTIVE, is still in the table and still ACTIVE.
C21_NoSelfDisable ==
  [][\A p \in Procs :
       (pc[p] \in {"admin_update", "admin_delete", "admin_disable"}
          /\ pc'[p] = "idle")
       => \A a \in getAdminById(loc[p].actor) :
            a.status = "ACTIVE"
            => \E b \in adminUsers' : b.id = a.id /\ b.status = "ACTIVE"]_vars

\* C22: the hard delete of an admin is one step that removes that admin
\* and its sessions and clears created_by on the access keys it created;
\* every access key and every other admin is still there, the admins it
\* created included, and nothing else about them is changed but their
\* created_by reference to the deleted admin.
C22_HardDeleteCascade ==
  [][\A p \in Procs :
       (pc[p] = "admin_delete" /\ pc'[p] = "idle"
          /\ getAdminById(loc[p].admin_id) # {})
       => LET id == loc[p].admin_id IN
          /\ res'.op = "deleteAdmin" /\ res'.code = 200
          /\ \A a \in adminUsers' : a.id # id
          /\ adminSessions' = {x \in adminSessions : x.admin_user_id # id}
          /\ Cardinality(accessKeys') = Cardinality(accessKeys)
          /\ \A r \in accessKeys :
               \E r2 \in accessKeys' :
                 /\ r2 = [r EXCEPT !.created_by =
                                     IF r.created_by = id THEN NullId ELSE @]
          /\ Cardinality(adminUsers') = Cardinality(adminUsers) - 1
          /\ \A a \in adminUsers :
               a.id # id
               => \E a2 \in adminUsers' :
                    a2 = [a EXCEPT !.created_by =
                                     IF a.created_by = id THEN NullId ELSE @]]_vars

C22_Witness ==
  /\ res.op = "deleteAdmin" /\ res.code = 200 /\ res.admin_id = 2
  /\ getAdminById(2) = {}
  /\ getAdminById(3) # {}
  /\ \A x \in adminSessions : x.admin_user_id # 2
  /\ \E r \in accessKeys : r.key_id = 1 /\ r.created_by = NullId
  /\ \E r \in accessKeys : r.key_id = 2 /\ r.created_by = 1

\* C23: no two AdminUser rows have usernames that are equal when case is
\* ignored; the insert of createAdmin is answered 409 and adds nothing when
\* a row of the name is there, as it is when another createAdmin of the
\* name got in first, and is answered 201 and adds the one row otherwise.
C23_UsernameUnique ==
  [][/\ \A a, b \in adminUsers' :
          LowerName(a.username) = LowerName(b.username) => a = b
     /\ \A p \in Procs :
          (pc[p] = "admin_insert" /\ pc'[p] = "idle")
          => /\ res'.op = "createAdmin" /\ res'.to = p
             /\ IF getAdminByUsername(loc[p].data.username) # {}
                  THEN /\ res'.code = 409
                       /\ adminUsers' = adminUsers
                  ELSE /\ res'.code = 201
                       /\ adminUsers \subseteq adminUsers'
                       /\ Cardinality(adminUsers') = Cardinality(adminUsers) + 1
                       /\ \E a \in adminUsers' \ adminUsers :
                            a.username = loc[p].data.username]_vars

C23_Witness ==
  \E p \in Procs :
    /\ pc[p] = "admin_insert"
    /\ loc[p].data.username = "OPS"
    /\ \E a \in adminUsers : a.username = "ops"

\* The rows validateKey finds valid at clock t, and the rows that are past
\* their expires_at or marked EXPIRED.
AcceptedKeys(t) == {r \in accessKeys : isKeyValid(mapAccessKeyRecord(r), t)}
LapsedKeys(t) ==
  {r \in accessKeys : r.expires_at <= t \/ r.status = "EXPIRED"}

\* What the counting queries would return now agrees with validateKey.
CountsAgree ==
  /\ getActiveKeysCount(now) = Cardinality(AcceptedKeys(now))
  /\ getExpiredKeysCount(now) = Cardinality(LapsedKeys(now))
  /\ AcceptedKeys(now) \cap LapsedKeys(now) = {}
  /\ getActiveKeysCount(now) + getExpiredKeysCount(now)
       <= Cardinality(accessKeys)

\* C24: the active count of the statistics is the number of keys
\* validateKey accepts at the instant the statistics are read, the expired
\* count is the number of keys past their expires_at or marked EXPIRED,
\* and no key is in both counts.
C24_StatsAgreeWithValidate ==
  [][/\ res'.op = "getAdminStats"
        => /\ res'.stats.active_keys = Cardinality(AcceptedKeys(now))
           /\ res'.stats.expired_keys = Cardinality(LapsedKeys(now))
           /\ res'.stats.total_keys = Cardinality(accessKeys)
     /\ CountsAgree']_vars

C24_Witness ==
  /\ res.op = "getAdminStats"
  /\ res.stats.active_keys = 1
  /\ res.stats.expired_keys = 1
  /\ \E r \in accessKeys : r.status = "ACTIVE" /\ r.expires_at = now

\* The bodies whose user_id passes validateCreateKey, and among them those
\* that leave hours out and those that ask for more than the maximum.
AcceptedUserIds ==
  {u \in UserIdInputs : u.type = "string" /\ Len(trim(u.chars)) > 0}
HoursOmitted == [user_id : AcceptedUserIds, hours : {Undefined}]
HoursAboveMax ==
  [user_id : AcceptedUserIds,
   hours : {h \in HoursRawInputs :
              ~parseInt(h).nan /\ parseInt(h).n > maxHours}]

\* A request that leaves hours out goes on with hours = 24, to the 409 of
\* an active key or to the insert of a key expiring 24 hours from now.
DefaultHoursUsed ==
  \A body \in HoursOmitted :
    PostCreate(SeqProc, body)
    => \/ res'.op = "createKey" /\ res'.code = 409
       \/ /\ pc'[SeqProc] = "create_insert"
          /\ loc'[SeqProc].hours = defaultHours
          /\ loc'[SeqProc].expires_at = now + defaultHours * MsPerHour

\* An inserted key lives no longer than the maximum.
LifetimeWithinMax ==
  \A r \in accessKeys' \ accessKeys :
    r.expires_at - r.created_at <= maxHours * MsPerHour

\* C25 (as claimed): hours left out become 24; hours above 168 are brought
\* down to 168 and the request goes on, to the 409 of an active key or to
\* the insert of a key; no key lives longer than the maximum.
C25_HoursClamped ==
  [][/\ LifetimeWithinMax
     /\ \/ pc[SeqProc] # "idle"
        \/ /\ DefaultHoursUsed
           /\ \A body \in HoursAboveMax :
                PostCreate(SeqProc, body)
                => \/ res'.op = "createKey" /\ res'.code = 409
                   \/ /\ pc'[SeqProc] = "create_insert"
                      /\ loc'[SeqProc].hours = maxHours]_vars

\* C25 (amended): hours left out become 24; a request for hours above 168
\* is answered 400 and creates no key; no key lives longer than the
\* maximum.
C25_HoursDefaultOrRejected ==
  [][/\ LifetimeWithinMax
     /\ \/ pc[SeqProc] # "idle"
        \/ /\ DefaultHoursUsed
           /\ \A body \in HoursAboveMax :
                PostCreate(SeqProc, body)
                => /\ res'.op = "createKey" /\ res'.code = 400
                   /\ res'.message = HoursMessage
                   /\ pc'[SeqProc] = "idle"
                   /\ accessKeys' = accessKeys /\ nextKeyId' = nextKeyId]_vars

C25_Witness ==
  /\ res.op = "createKey" /\ res.code = 400 /\ res.message = HoursMessage
  /\ \E r \in accessKeys :
       r.expires_at - r.created_at = defaultHours * MsPerHour
  /\ \E r \in accessKeys :
       r.expires_at - r.created_at = maxHours * MsPerHour

\* C29: every AccessKey created through the validated create path has a
\* user_id that is not empty.
C29_UserIdNotEmpty ==
  \A r \in accessKeys : r.user_id # ""

\* C26: every usage update of a validation, of validateKey or of the bind
\* script, adds exactly one to the stored usage_count of its key, whatever
\* count the validation had read and however the updates of concurrent
\* validations are ordered, so k validations add k; validateKey answers
\* with the count its own update produced.
C26_NoLostIncrement ==
  [][\A p \in Procs :
       (/\ pc[p] \in {"validate_update", "bind_update"}
        /\ pc'[p] = "idle"
        /\ findByKeyId(loc[p].key_id) # {})
       => LET row == CHOOSE r \in findByKeyId(loc[p].key_id) : TRUE IN
          /\ \E row2 \in accessKeys' :
               /\ row2.key_id = row.key_id
               /\ row2.usage_count = row.usage_count + 1
               /\ accessKeys' \ {row2} = accessKeys \ {row}
               /\ pc[p] = "validate_update"
                  => /\ res'.op = "validateKey" /\ res'.to = p
                     /\ res'.code = 200 /\ res'.valid
                     /\ res'.usage_count = row2.usage_count
          /\ PendingUsage' = PendingUsage]_vars

C26_Witness ==
  \E p \in Procs :
    /\ pc[p] = "validate_update"
    /\ loc[p].key.usage_count = 0
    /\ \E r \in findByKeyId(loc[p].key_id) : r.usage_count = 1

\* The rows of a key id that are past their expires_at at clock t.
ExpiredRows(keyId, t) == {r \in findByKeyId(keyId) : r.expires_at <= t}

\* C27: the clock only moves forward and no step changes the status or
\* the expires_at of a stored AccessKey; validateKey and getKeyInfo of a
\* key past its expires_at answer 410, not valid, with the stored
\* usage_count, and leave the table as it is, with no update to follow.
\* Hence a key once reported expired is reported expired ever after.
C27_ExpiryIsFinal ==
  [][/\ now' >= now
     /\ \A r \in accessKeys : \A r2 \in accessKeys' :
          r2.key_id = r.key_id
          => r2.status = r.status /\ r2.expires_at = r.expires_at
     /\ \A p \in Procs :
          /\ (pc[p] = "idle" /\ pc'[p] \in {"validate_update", "bind_update"})
             => ExpiredRows(loc'[p].key_id, now) = {}
          /\ (/\ pc[p] = "idle" /\ res'.to = p
              /\ res'.op \in {"validateKey", "getKeyInfo"}
              /\ ExpiredRows(res'.key_id, now) # {})
             => /\ res'.code = 410 /\ ~res'.valid
                /\ \A r \in ExpiredRows(res'.key_id, now) :
                     res'.usage_count = r.usage_count
                /\ accessKeys' = accessKeys
                /\ pc'[p] = "idle"]_vars

C27_Witness ==
  /\ res.op = "validateKey" /\ res.code = 410 /\ ~res.valid
  /\ \E r \in findByKeyId(res.key_id) :
       /\ r.status = "ACTIVE" /\ r.expires_at < now
       /\ r.usage_count >= 1 /\ res.usage_count = r.usage_count

\* C28: createKey answers 409 exactly when the user has an ACTIVE
\* unexpired key, and otherwise goes on to insert a key, which adds one
\* row and leaves every earlier row, expired ones included, as it was;
\* getUserKeys returns every row of the user.
C28_CreateAfterExpiry ==
  [][\A p \in Procs :
       /\ (pc[p] = "idle" /\ res'.op = "createKey" /\ res'.to = p)
          => /\ res'.code = 409
             /\ ActiveRows(res'.user_id, now) # {}
             /\ accessKeys' = accessKeys
       /\ (pc[p] = "idle" /\ pc'[p] = "create_insert")
          => ActiveRows(loc'[p].user_id, now) = {}
       /\ (pc[p] = "create_insert" /\ pc'[p] = "idle")
          => /\ res'.op = "createKey" /\ res'.code = 200
             /\ accessKeys \subseteq accessKeys'
             /\ Cardinality(accessKeys') = Cardinality(accessKeys) + 1
             /\ \E r \in accessKeys' \ accessKeys :
                  r.user_id = loc[p].user_id /\ r.key_id = res'.key_id
       /\ (res'.op = "getUserKeys" /\ res'.to = p)
          => {res'.keys[i].key_id : i \in DOMAIN res'.keys}
               = {r.key_id : r \in {x \in accessKeys :
                                      x.user_id = res'.user_id}}]_vars

C28_Witness ==
  /\ res.op = "createKey" /\ res.code = 200 /\ res.user_id = "alice"
  /\ \E r \in accessKeys :
       /\ r.user_id = "alice" /\ r.status = "ACTIVE"
       /\ r.key_id # res.key_id /\ r.expires_at <= now
  /\ \E r \in accessKeys : r.key_id = res.key_id /\ r.expires_at > now

\* C30: no stored count exceeds maxAttempts.  An attempt that gets past
\* the limiter adds one to the count of its address, starting from nought
\* when the address has no record or its window is over, so the count is
\* the number of attempts let through since the record was last reset; a
\* blocked attempt leaves the record as it is.  A count goes down, or its
\* window start moves, only by a successful login of the address or
\* by an attempt made when now - firstAt > windowMs.
C30_CountBounded ==
  [][/\ \A ip \in DOMAIN loginAttempts' :
          loginAttempts'[ip].count <= maxAttempts
     /\ \A p \in Procs :
          (pc[p] = "login_track" /\ pc'[p] # "login_track")
          => LET ip == loc[p].ip
                 fresh == \/ ip \notin DOMAIN loginAttempts
                          \/ now - loginAttempts[ip].firstAt > windowMs
             IN /\ ip \in DOMAIN loginAttempts'
                /\ IF res'.op = "login" /\ res'.code = 429
                     THEN /\ ~fresh
                          /\ loginAttempts[ip].count = maxAttempts
                          /\ loginAttempts' = loginAttempts
                     ELSE loginAttempts'[ip].count =
                            (IF fresh THEN 0 ELSE loginAttempts[ip].count) + 1
                /\ loginAttempts'[ip].firstAt =
                     IF fresh THEN now ELSE loginAttempts[ip].firstAt
     /\ \A ip \in DOMAIN loginAttempts :
          (\/ ip \notin DOMAIN loginAttempts'
           \/ loginAttempts'[ip].count < loginAttempts[ip].count
           \/ loginAttempts'[ip].firstAt # loginAttempts[ip].firstAt)
          => \E p \in Procs :
               /\ loc[p].ip = ip
               /\ \/ pc[p] = "login_verify" /\ pc'[p] = "login_session"
                  \/ /\ pc[p] = "login_track" /\ pc'[p] # "login_track"
                     /\ now - loginAttempts[ip].firstAt > windowMs]_vars

C30_Witness ==
  /\ res.op = "login" /\ res.code = 429
  /\ res.ip \in DOMAIN loginAttempts
  /\ loginAttempts[res.ip].count = maxAttempts
  /\ now - loginAttempts[res.ip].firstAt = windowMs
  /\ \E p \in Procs : pc[p] = "login_verify" /\ loc[p].ip = res.ip

C32_SessionExpiryFixed ==
  [][/\ \A x \in adminSessions' :
          /\ x.expires_at <= x.created_at + sessionTtlMs
          /\ \A p \in Procs :
               (pc[p] = "login_session" /\ x \notin adminSessions)
               => x.expires_at = loc[p].expires_at /\ x.created_at = now
          /\ \A y \in adminSessions :
               y.id = x.id
               => y.expires_at = x.expires_at /\ y.created_at = x.created_at
     /\ \A p \in Procs :
          /\ (pc[p] = "auth_touch" /\ pc'[p] = "idle")
             => /\ res'.op = "requireAuth" /\ res'.code = 200
                /\ adminSessions' =
                     {IF x.id = loc[p].session_id
                        THEN [x EXCEPT !.last_seen_at = now] ELSE x :
                      x \in adminSessions}
                /\ adminUsers' = adminUsers
          /\ (pc[p] # "auth_touch" /\ pc'[p] = "auth_touch")
             => \E x \in adminSessions :
                  /\ x.id = loc'[p].session_id
                  /\ x.token_hash = hashSessionToken(loc'[p].token)
                  /\ now < x.created_at + sessionTtlMs
     /\ (res'.op = "requireAuth" /\ res'.code = 200)
          => pc[res'.to] = "auth_touch"]_vars

C32_Witness ==
  /\ res.op = "requireAuth" /\ res.code = 200
  /\ \E x \in adminSessions :
       /\ x.token_hash = hashSessionToken(res.token)
       /\ x.created_at = 0
       /\ x.last_seen_at = now
       /\ now = windowMs + 1
       /\ x.expires_at = sessionTtlMs

\* C33: whether or not the store carries out the write requireAuth
\* awaits, requireAuth answers a stale session 401 "Session expired" and
\* lets the request of a usable one through as the session's admin; no
\* answer of requireAuth reports an error of those writes.
C33_CleanupFailureSwallowed ==
  [][\A p \in Procs :
       /\ (pc[p] = "auth_delete" /\ pc'[p] # "auth_delete")
          => /\ pc'[p] = "idle"
             /\ res' = [AuthResp(loc[p].token, 401, "Session expired")
                          EXCEPT !.to = p]
       /\ (pc[p] = "auth_touch" /\ pc'[p] # "auth_touch")
          => /\ pc'[p] = "idle"
             /\ res' = [AuthResp(loc[p].token, 200, "")
                          EXCEPT !.to = p, !.admin_id = loc[p].admin_id]
       /\ (res'.op = "requireAuth" /\ res'.to = p)
          => res'.code \in {200, 401}]_vars

\* An expired session was refused although its delete was rejected (the
\* row is still there), another session having been used before.
C33_Witness ==
  /\ res.op = "requireAuth"
  /\ res.code = 401 /\ res.message = "Session expired"
  /\ \E x \in adminSessions :
       /\ x.token_hash = hashSessionToken(res.token)
       /\ x.expires_at <= now /\ x.revoked_at = NullTime
  /\ \E x \in adminSessions :
       /\ x.expires_at > now /\ x.revoked_at = NullTime
       /\ x.created_at < x.last_seen_at

\* C38: a login that ends in an error after its credentials were verified
\* leaves no session of its token in the store.
C38_FailedLoginLeavesNoSession ==
  [][\A p \in Procs :
       (/\ pc[p] \in {"login_session", "login_record"}
        /\ pc'[p] = "idle"
        /\ res'.code # 200)
       => \A x \in adminSessions' :
            x.token_hash # hashSessionToken(loc[p].token)]_vars

\* C34: getRemainingTime of an expiry date at or before the clock is
\* expired with remaining, hours and minutes 0; of a later one, diff =
\* expiry - now being the time left, it is not expired, remaining is diff,
\* hours is the number of whole hours in diff, minutes is between 0 and 59
\* and hours * 60 + minutes is the number of whole minutes in diff.
C34_RemainingTime ==
  res.op = "getRemainingTime"
  => LET diff == res.expires_at - now
         left == res.time_remaining
     IN IF res.expires_at <= now
          THEN left = [expired |-> TRUE, remaining |-> 0, hours |-> 0,
                       minutes |-> 0]
          ELSE /\ left.expired = FALSE
               /\ left.remaining = diff
               /\ left.hours * MsPerHour <= diff
               /\ diff < (left.hours + 1) * MsPerHour
               /\ left.minutes \in 0..59
               /\ (left.hours * 60 + left.minutes) * MsPerMinute <= diff
               /\ diff < (left.hours * 60 + left.minutes + 1) * MsPerMinute

C34_Witness ==
  /\ res.op = "getRemainingTime"
  /\ now = MsPerHour + 1
  /\ res.expires_at = 2 * MsPerHour + 59 * MsPerMinute + MsPerMinute - 1
  /\ res.time_remaining.hours = 1
  /\ res.time_remaining.minutes = 59

\* C35: every answer of validateKey and of the binding script is 404 (no
\* such key) or the result of a validation, 200 or 410; none reports an
\* error of the store, whatever deleteKey does meanwhile.
C35_ValidateDuringDelete ==
  res.op \in {"validateKey", "bind"} => res.code \in {200, 404, 410}

C37_DisabledAdminRejected ==
  [][\A p \in Procs :
       (pc[p] # "auth_touch" /\ pc'[p] = "auth_touch")
       => \E a \in getAdminById(loc'[p].admin_id) :
            /\ a.status = "ACTIVE"
            /\ a.expires_at = NullTime \/ a.expires_at > now]_vars

\* C39: every session's admin_user_id is the id of a row of AdminUser; a
\* hard delete that answers success leaves neither the admin nor a session
\* of the admin, and requireAuth finds no session usable whose admin is
\* gone.
C39_SessionsHaveOwners ==
  [][/\ \A x \in adminSessions' : getAdminById(x.admin_user_id)' # {}
     /\ \A p \in Procs :
          /\ (/\ pc[p] = "admin_delete" /\ pc'[p] = "idle"
              /\ res'.code = 200)
             => /\ \A a \in adminUsers' : a.id # loc[p].admin_id
                /\ \A x \in adminSessions' :
                     x.admin_user_id # loc[p].admin_id
          /\ (pc[p] # "auth_touch" /\ pc'[p] = "auth_touch")
             => getAdminById(loc'[p].admin_id) # {}]_vars

\* The admin was deleted while its login was between the check of its
\* credentials and the insert of its session: the insert was refused and
\* no session of the admin is left.
C39_Witness ==
  /\ res.op = "login" /\ res.code = 500 /\ res.username = "ops"
  /\ getAdminByUsername("ops") = {}
  /\ nextAdminId > 2
  /\ \A x \in adminSessions : x.admin_user_id = 1

\* C40: in every answer of getAdminStats the active and the expired keys
\* together are no more than the total, and the recent keys are no more
\* than the total.
C40_StatsWithinTotal ==
  res.op = "getAdminStats"
  => /\ res.stats.active_keys + res.stats.expired_keys
          <= res.stats.total_keys
     /\ res.stats.recent_keys <= res.stats.total_keys

====
